---- MODULE Spec2Model ----
(***************************************************************************)
(* Backup orchestration core of nxs-backup: descending rotation and        *)
(* delivery on the SMB storage (modules/storage/smb/smb.go) and the job    *)
(* pipeline DoBackup of the postgresql_basebackup and mongodb adapters.    *)
(***************************************************************************)
EXTENDS Integers, Sequences, FiniteSets, TLC

\* ------------------------------------------------------------------ bounds
\* number of backup runs whose artifacts may be present on a storage
MaxNames == 3
\* largest retention value (count, or age in runs) of a bucket
MaxRet == 2
\* largest number of entries (files and symlinks) below one OFS
MaxEntries == 4

\* largest number of month directories below the OFS of an incremental job
MaxIncDirs == 2

\* capacity of the log channel
LogCap == 2

\* number of targets of a job
MaxTargets == 2
\* number of storages of a job
MaxStorages == 2

\* number of collections of a mongodump target
MaxCollections == 1

\* ------------------------------------------------------- storage contents
Names == 1..MaxNames

\* the time of the rotation: later than the mtime of every stored entry
Now == MaxNames + 1

RetentionPeriodsList == <<"yearly", "monthly", "weekly", "daily", "hourly">>

Weekly == "weekly"

Daily == "daily"

Buckets == {RetentionPeriodsList[i] : i \in 1..Len(RetentionPeriodsList)}

Rank(b) == CHOOSE i \in 1..Len(RetentionPeriodsList) : RetentionPeriodsList[i] = b

\* a path below <backupPath>/<ofsPart>: <<bucket, basename>>
Paths == Buckets \X Names

\* the empty string used by the code for "no link"
NoPath == <<>>

NoEntry == [kind |-> "none", tgt |-> NoPath, mtime |-> 0, data |-> 0]

\* the artifact of run n stored as a regular file
FileEntry(n) == [kind |-> "file", tgt |-> NoPath, mtime |-> n, data |-> n]

\* a symlink created at time t whose text is the relative path ../<bucket>/<basename> of target
LinkEntry(target, t) == [kind |-> "link", tgt |-> target, mtime |-> t, data |-> 0]

VARIABLES
    fs,            \* SMB share below <backupPath>/<ofsPart>: path -> entry
    retention,     \* SMB.Retention: [useCount, val: bucket -> count or age, 0 = unused]
    rotateEnabled, \* SMB.rotateEnabled
    safety,        \* job.IsBackupSafety()
    mayFail,       \* the environment may still make one operation on the share fail
    rpc,           \* position inside DeleteOldBackups / deleteDescBackup
    filesMap,      \* path -> [present, wLink, dLink]
    filesToDelete, \* keys of filesToDeleteMap
    todo,          \* keys of filesToDeleteMap the reconciliation loop has not visited
    cur,           \* the candidate the reconciliation loop is at
    delFile,       \* local delFile
    moved,         \* local moved
    errs,          \* number of errors appended to the multi-error
    ret,           \* returned value of DeleteOldBackups: "none" (running), "nil", "err"
    hist,          \* what the pass has done so far: [deleted, moveAfterDelete, broke]
    bakType,       \* job.GetType(), the bakType of DeliveryBackup
    incFs,         \* SMB share below <backupPath>/<ofsPart> of an incremental job
    moy,           \* misc.GetDateTimeNow("moy"): the month of the run
    applicable,    \* the buckets whose boundary the timestamp of the artifact falls on
    dpc,           \* position inside DeliveryBackup
    dLinks,        \* destinations of the links map DeliveryBackup has not created yet
    dret,          \* returned value of DeliveryBackup: "none" (running), "nil", "err"
    deferredCopying, \* job.deferredCopying
    jpc,           \* position inside DoBackup, and "cleaned" once CleanupTmpData has run
    jtodo,         \* keys of j.targets the target loop has not visited
    jcur,          \* the target the loop is at (0: none)
    dumpedObjects, \* j.dumpedObjects: target -> "none" (no entry), "pending", "delivered"
    metrics,       \* j.appMetrics.Job[j.name].TargetMetrics: target -> values
    jerrs,         \* number of errors appended to the multi-error of DoBackup
    jret,          \* returned value of DoBackup: "none" (running), "nil", "err"
    stage,         \* how far the temp backup of each target got
    dumpDir,       \* targets whose intermediate dump directory exists
    tmpFile,       \* target -> size of its temp artifact (0: no file)
    stKind,        \* how each storage of the job behaves
    uploads,       \* <<storage, target>> -> DeliveryBackup calls made in this run
    remote,        \* <<storage, target>> -> the artifact is on the storage
    hasLinks,      \* the path resolver gives the artifacts of the run a symlink
    jcols,         \* collections of the target the loop is at that are still to be dumped
    linked,        \* <<storage, target>> -> the symlink to the artifact is on the storage
    pass,          \* the running Storages.Delivery: [kind, todo, ofs, st, step, tries,
                   \* oErrs, errs]
    timed,         \* targets whose BackupTime DoBackup has set since it zeroed their metrics
    rotated,       \* <<storage, target>> -> DeleteOldBackups calls made in this run
    rotPass,       \* the running Storages.DeleteOldBackups: [ofs, st]
    rotRet,        \* target -> what job.DeleteOldBackups returned: "none" (not called), "nil"
    regLock,       \* lock of the job's entry of the metrics registry: "free", "reader", "writer"
    fs0,           \* the share as it was when DeleteOldBackups was called
    incFs0,        \* the OFS of an incremental job as it was then
    strays0,       \* the other entries of its year directories as they were then
    redelivery,    \* DeliveryBackup was called again for the same temp artifact and OFS
    full,          \* the argument full of DeleteOldBackups
    months,        \* SMB.Retention.Months
    incYear,       \* deleteIncBackup: the year directory it works on
    incTodo,       \* deleteIncBackup: names of the listing the loop has not visited
    lastMonth,     \* deleteIncBackup: local lastMonth (0 before it is computed)
    strays,        \* entries of year directories other than month directories: <<year, name>>
    logBuf,        \* records waiting in logCh
    sinkUp,        \* the log consumer is reading logCh
    hCfg,          \* storage handle -> its fields backupPath, rateLimit, rotateEnabled, Retention
    hSess,         \* storage handle -> the session and share its pointers refer to (0: none)
    sessOpen,      \* session -> it is logged on and its share mounted
    lastOp,        \* the last call made on a storage handle: [h, op, ok]
    ipc,           \* position inside Init of the job
    iEnv,          \* JobParams and what Init will meet: [name, type, dumpBin, tar, src]
    isrc,          \* index in jp.Sources of the source the loop of Init is at
    iret,          \* what Init returned: [err, job]
    connects,      \* sources a connection was attempted to
    registered     \* keys of j.targets

rotVars == <<fs, retention, rotateEnabled, safety, mayFail, rpc, filesMap,
             filesToDelete, todo, cur, delFile, moved, errs, ret, hist, bakType>>

dlvVars == <<incFs, moy, applicable, dpc, dLinks, dret>>

jobVars == <<deferredCopying, jpc, jtodo, jcur, dumpedObjects, metrics, jerrs, jret,
             stage, dumpDir, tmpFile, stKind, hasLinks, jcols, linked, uploads, remote,
             pass, timed>>

\* state of the run around the job
runVars == <<rotated, rotPass, rotRet, regLock>>

\* state of deleteIncBackup
incVars == <<full, months, incYear, incTodo, lastMonth, strays>>

\* the log channel and its consumer
logVars == <<logBuf, sinkUp>>

\* storage handles and their sessions
cloneVars == <<hCfg, hSess, sessOpen, lastOp>>

\* state of Init of the job
initVars == <<ipc, iEnv, isrc, iret, connects, registered>>

\* what is remembered of the past
histVars == <<fs0, incFs0, strays0, redelivery>>

\* what no action of a rotation, a delivery or a run touches
sideVars == <<histVars, cloneVars, initVars>>

vars == <<rotVars, dlvVars, jobVars, runVars, histVars, incVars, logVars, cloneVars, initVars>>

\* what a rotation leaves alone
rotFrame == <<dlvVars, jobVars, runVars, sideVars, incVars, sinkUp>>

\* what a delivery leaves alone
dlvFrame == <<retention, rotateEnabled, safety, rpc, filesMap, filesToDelete, todo, cur,
              delFile, moved, errs, ret, hist, bakType, moy, applicable, jobVars, runVars,
              sideVars, incVars, sinkUp>>

\* what a job leaves alone
jobFrame == <<rotVars, dlvVars, runVars, sideVars, incVars, sinkUp>>

\* --------------------------------------------------------- share primitives
Exists(f, p) == p \in Paths /\ f[p].kind # "none"

\* smb2.Share.Remove: fails on the empty name and on a missing file
RemoveOk(f, p) == Exists(f, p)

RemoveFs(f, p) == [f EXCEPT ![p] = NoEntry]

\* smb2.Share.Rename: the source must exist and the destination must not
RenameOk(f, old, new) == Exists(f, old) /\ new \in Paths /\ ~Exists(f, new)

\* a rename that leaves an empty file at the destination
RenameFsEmpty(f, old, new) ==
    [f EXCEPT ![new] = [kind |-> "file", tgt |-> NoPath, mtime |-> f[old].mtime, data |-> 0],
              ![old] = NoEntry]

RenameFs(f, old, new) == [f EXCEPT ![new] = f[old], ![old] = NoEntry]

\* smb2.Share.Symlink: the destination must not exist
SymlinkOk(f, dst) == dst \in Paths /\ ~Exists(f, dst)

SymlinkFs(f, target, dst, t) == [f EXCEPT ![dst] = LinkEntry(target, t)]

\* smb2.Share.ReadDir: basenames of the entries of a bucket directory
ReadDir(f, b) == {n \in Names : f[<<b, n>>].kind # "none"}

\* filepath.Join(bakDir, link) for the link text read from fPath
JoinLink(f, fPath) == f[fPath].tgt

\* a link text that names the link itself
RelLinkToSelf(dLink, wLink) == dLink

\* filepath.Rel(filepath.Dir(dLink), wLink): the text ../<bucket>/<basename>, kept resolved
RelLink(dLink, wLink) == wLink

\* following a symlink once: the path it names
Resolves(f, p) == f[p].kind = "link" => Exists(f, f[p].tgt)

AllLinksResolve(f) == \A p \in Paths : Resolves(f, p)

\* ------------------------------------------------------------- retention
ZeroDate == 0

\* the periods a retention setting uses
Configured(r) == {b \in Buckets : r.val[b] > 0}

\* storage.GetRetention: (count, date) of a period
GetRetention(p, r) ==
    IF r.useCount
    THEN [count |-> r.val[p], date |-> ZeroDate]
    ELSE [count |-> 0, date |-> IF r.val[p] = 0 THEN ZeroDate ELSE Now - r.val[p]]

\* sort.Slice by ModTime followed by smbFiles[:k]: a set of k entries none newer than the rest
OldestSets(f, b, names, k) ==
    {S \in SUBSET names :
        /\ Cardinality(S) = k
        /\ \A x \in S, y \in names \ S : f[<<b, x>>].mtime <= f[<<b, y>>].mtime}

\* count mode that keeps count - 1 entries whatever the job asks
CountCandidatesDec(f, b, names, count, safe) ==
    LET retentionCount == count - 1
        len == Cardinality(names)
    IN  IF retentionCount <= len
        THEN OldestSets(f, b, names, len - retentionCount)
        ELSE {{}}

\* lines 235-247: the names selected in count mode
CountCandidates(f, b, names, count, safe) ==
    LET retentionCount == IF safe THEN count ELSE count - 1
        len == Cardinality(names)
    IN  IF retentionCount <= len
        THEN OldestSets(f, b, names, len - retentionCount)
        ELSE {{}}

\* lines 248-261: the names selected in age mode
AgeCandidates(f, b, names, date) ==
    {{n \in names : f[<<b, n>>].mtime < date}}

NoLinks == [present |-> FALSE, wLink |-> NoPath, dLink |-> NoPath]

FreshLinks == [present |-> TRUE, wLink |-> NoPath, dLink |-> NoPath]

\* lines 210-233: filesMap after the entries of bucket b are recorded; unreadable is the
\* set of symlinks whose Readlink failed
RECURSIVE ScanFiles(_, _, _, _, _)
ScanFiles(f, fm, b, names, unreadable) ==
    IF names = {} THEN fm
    ELSE LET n == CHOOSE x \in names : \A y \in names : x <= y
             fPath == <<b, n>>
             isLink == f[fPath].kind = "link"
             linkPath == JoinLink(f, fPath)
             fm1 == IF isLink /\ linkPath \in Paths /\ fm[linkPath].present
                    THEN IF b = Weekly THEN [fm EXCEPT ![linkPath].wLink = fPath]
                         ELSE IF b = Daily THEN [fm EXCEPT ![linkPath].dLink = fPath]
                         ELSE fm
                    ELSE fm
         IN  IF isLink /\ n \in unreadable
             THEN ScanFiles(f, fm, b, names \ {n}, unreadable)
             ELSE ScanFiles(f, [fm1 EXCEPT ![fPath] = FreshLinks], b, names \ {n}, unreadable)


\* ------------------------------------------------ descending rotation (SMB)
IncFiles == "inc_files"

NoHist == [deleted |-> FALSE, moveAfterDelete |-> FALSE, broke |-> FALSE]

EmptyFilesMap == [p \in Paths |-> NoLinks]

\* lines 194-198: the periods the scan loop does not skip
Scanned(r) ==
    {b \in Buckets : ~(GetRetention(b, r).count = 0 /\ GetRetention(b, r).date = ZeroDate)}

\* lines 194-233: filesMap once the scan loop has gone through periods i..5
RECURSIVE ScanPeriods(_, _, _, _, _)
ScanPeriods(f, fm, r, i, unreadable) ==
    IF i > Len(RetentionPeriodsList) THEN fm
    ELSE LET p == RetentionPeriodsList[i]
             bad == {n \in ReadDir(f, p) : <<p, n>> \in unreadable}
         IN  IF p \in Scanned(r)
             THEN ScanPeriods(f, ScanFiles(f, fm, p, ReadDir(f, p), bad), r, i + 1, unreadable)
             ELSE ScanPeriods(f, fm, r, i + 1, unreadable)

\* lines 235-270: the deletion candidates of one period
CandidateSets(f, b, r, safe) ==
    IF r.useCount
    THEN CountCandidates(f, b, ReadDir(f, b), GetRetention(b, r).count, safe)
    ELSE AgeCandidates(f, b, ReadDir(f, b), GetRetention(b, r).date)

\* lines 263-270 over all periods: the possible key sets of filesToDeleteMap
RECURSIVE Selections(_, _, _, _)
Selections(f, bs, r, safe) ==
    IF bs = {} THEN {{}}
    ELSE LET b == CHOOSE x \in bs : TRUE
         IN  {s \cup {<<b, n>> : n \in c} :
                 s \in Selections(f, bs \ {b}, r, safe), c \in CandidateSets(f, b, r, safe)}

\* logCh <- logger.Log(...): a send on the channel returns once the consumer takes the
\* record or the buffer of the channel has room for it, and blocks otherwise; an
\* operation that sends k records goes through when all of them are accepted
Log(k) ==
    /\ sinkUp \/ logBuf + k <= LogCap
    /\ logBuf' = IF sinkUp THEN logBuf ELSE logBuf + k

\* the log consumer stops reading
SinkStops ==
    /\ sinkUp
    /\ sinkUp' = FALSE
    /\ UNCHANGED <<rotVars, dlvVars, jobVars, runVars, sideVars, incVars, logBuf>>

\* the log channel with its consumer running
LogIdle ==
    /\ logBuf = 0
    /\ sinkUp = TRUE

\* line 325: errs.ErrorOrNil()
ErrorOrNil(e) == IF e = 0 THEN "nil" ELSE "err"

\* an operation on the share either runs (inject = FALSE) or is made to fail, once per pass
Inject(inject) ==
    /\ inject => mayFail
    /\ mayFail' = (mayFail /\ ~inject)

\* deleteIncBackup that takes the month branch whatever full is
IncBranchMonths(f) == "inc_scan"

\* deleteIncBackup, line 331: if full
IncBranch(f) == IF f THEN "inc_full" ELSE "inc_scan"

\* SMB.DeleteOldBackups: the rotateEnabled guard, the dispatch on the job type, and the
\* scan loop of deleteDescBackup (lines 194-271), which only reads the share
DeleteOldBackups ==
    /\ rpc = "idle"
    /\ IF ~rotateEnabled
       THEN /\ rpc' = "done"
            /\ ret' = "nil"
            /\ UNCHANGED <<filesMap, filesToDelete, todo, errs, mayFail>>
       ELSE IF bakType = IncFiles
       THEN /\ rpc' = IncBranch(full)
            /\ UNCHANGED <<filesMap, filesToDelete, todo, errs, mayFail, ret>>
       ELSE \E unreadable \in SUBSET {p \in Paths : p[1] \in Scanned(retention)
                                                 /\ fs[p].kind = "link"} :
            \E sel \in Selections(fs, Scanned(retention), retention, safety) :
               /\ Cardinality(unreadable) <= 1
               /\ Inject(unreadable # {})
               /\ errs' = Cardinality(unreadable)
               /\ filesMap' = ScanPeriods(fs, EmptyFilesMap, retention, 1, unreadable)
               /\ filesToDelete' = sel
               /\ todo' = sel
               /\ rpc' = IF sel = {} THEN "done" ELSE "loop"
               /\ ret' = IF sel = {} THEN ErrorOrNil(errs') ELSE ret
    /\ UNCHANGED <<fs, retention, rotateEnabled, safety, cur, delFile, moved, hist, bakType>>
    /\ UNCHANGED rotFrame
    /\ Log(IF ~rotateEnabled THEN 1 ELSE errs' - errs)

\* lines 200-208: a ReadDir of the scan loop fails with an error other than "not exist":
\* deleteDescBackup returns that error
ScanReadDirFails ==
    /\ rpc = "idle"
    /\ rotateEnabled
    /\ bakType # IncFiles
    /\ Scanned(retention) # {}
    /\ Inject(TRUE)
    /\ rpc' = "done"
    /\ ret' = "err"
    /\ UNCHANGED <<fs, retention, rotateEnabled, safety, filesMap, filesToDelete, todo,
                   cur, delFile, moved, errs, hist, bakType>>
    /\ UNCHANGED rotFrame
    /\ Log(1)

\* lines 302-303 and 314: where the pass goes once the weekly block is over
DBlockPc(fl, toDelete, mv, del) ==
    IF fl.dLink # NoPath /\ ~mv /\ fl.dLink \notin toDelete THEN "m_remove"
    ELSE IF del THEN "del" ELSE "loop"

\* line 286: the daily link is rewritten unless it is itself a deletion candidate
AfterMoveW(fl, toDelete, mv) ==
    IF fl.dLink \notin toDelete THEN "d_remove" ELSE DBlockPc(fl, toDelete, mv, FALSE)

\* lines 273 and 325: the next iteration, or the return once every key was visited
Continue(pc, e) ==
    /\ rpc' = IF pc = "loop" /\ todo = {} THEN "done" ELSE pc
    /\ ret' = IF pc = "loop" /\ todo = {} THEN ErrorOrNil(e) ELSE ret

\* lines 273-277: the loop takes the next key of filesToDeleteMap, in any order
PickCandidate ==
    /\ rpc = "loop"
    /\ \E file \in todo :
        /\ todo' = todo \ {file}
        /\ cur' = file
        /\ moved' = FALSE
        /\ LET fl == filesMap[file]
           IN  IF ~fl.present
               THEN rpc' = "panic" /\ delFile' = TRUE
               ELSE IF fl.wLink # NoPath /\ fl.wLink \notin filesToDelete
               THEN rpc' = "w_remove" /\ delFile' = FALSE
               ELSE rpc' = DBlockPc(fl, filesToDelete, FALSE, TRUE) /\ delFile' = TRUE
    /\ UNCHANGED <<fs, retention, rotateEnabled, safety, mayFail, filesMap,
                   filesToDelete, errs, ret, hist, bakType>>
    /\ UNCHANGED rotFrame
    /\ Log(0)

\* line 279, moveFile line 459: remove the weekly link
MoveW_Remove ==
    /\ rpc = "w_remove"
    /\ \E inject \in BOOLEAN :
        /\ Inject(inject)
        /\ LET fl == filesMap[cur]
           IN  IF RemoveOk(fs, fl.wLink) /\ ~inject
               THEN /\ fs' = RemoveFs(fs, fl.wLink)
                    /\ errs' = errs
                    /\ Continue("w_rename", errs')
               ELSE /\ fs' = fs
                    /\ errs' = errs + 1
                    /\ Continue(AfterMoveW(fl, filesToDelete, FALSE), errs')
    /\ UNCHANGED <<retention, rotateEnabled, safety, filesMap, filesToDelete,
                   todo, cur, delFile, moved, hist, bakType>>
    /\ UNCHANGED rotFrame
    /\ Log(errs' - errs)

\* line 279, moveFile line 462: rename the candidate onto the weekly link's path
MoveW_Rename ==
    /\ rpc = "w_rename"
    /\ \E inject \in BOOLEAN :
        /\ Inject(inject)
        /\ LET fl == filesMap[cur]
           IN  IF RenameOk(fs, cur, fl.wLink) /\ ~inject
               THEN /\ fs' = RenameFs(fs, cur, fl.wLink)
                    /\ errs' = errs
                    /\ hist' = [hist EXCEPT !.moveAfterDelete = @ \/ hist.deleted]
                    /\ rpc' = "w_moved"
                    /\ ret' = ret
               ELSE /\ fs' = fs
                    /\ errs' = errs + 1
                    /\ hist' = hist
                    /\ Continue(AfterMoveW(fl, filesToDelete, FALSE), errs')
    /\ UNCHANGED <<retention, rotateEnabled, safety, filesMap, filesToDelete,
                   todo, cur, delFile, moved, bakType>>
    /\ UNCHANGED rotFrame
    /\ Log(errs' - errs)

\* lines 283-284: the move is logged and remembered
MoveW_Logged ==
    /\ rpc = "w_moved"
    /\ Log(1)
    /\ moved' = TRUE
    /\ Continue(AfterMoveW(filesMap[cur], filesToDelete, TRUE), errs)
    /\ UNCHANGED <<fs, retention, rotateEnabled, safety, mayFail, filesMap, filesToDelete,
                   todo, cur, delFile, errs, hist, bakType>>
    /\ UNCHANGED rotFrame

\* lines 286-291: remove the daily link; a failure leaves the loop (break)
RelinkD_Remove ==
    /\ rpc = "d_remove"
    /\ \E inject \in BOOLEAN :
        /\ Inject(inject)
        /\ LET fl == filesMap[cur]
           IN  IF RemoveOk(fs, fl.dLink) /\ ~inject
               THEN /\ fs' = RemoveFs(fs, fl.dLink)
                    /\ rpc' = "d_symlink"
                    /\ UNCHANGED <<errs, ret, hist>>
               ELSE /\ fs' = fs
                    /\ errs' = errs + 1
                    /\ rpc' = "done"
                    /\ ret' = ErrorOrNil(errs')
                    /\ hist' = [hist EXCEPT !.broke = TRUE]
    /\ UNCHANGED <<retention, rotateEnabled, safety, filesMap, filesToDelete,
                   todo, cur, delFile, moved, bakType>>
    /\ UNCHANGED rotFrame
    /\ Log(errs' - errs)

\* lines 292-298: create the daily link again, pointing at the weekly path
RelinkD_Symlink ==
    /\ rpc = "d_symlink"
    /\ \E inject \in BOOLEAN :
        /\ Inject(inject)
        /\ LET fl == filesMap[cur]
           IN  IF SymlinkOk(fs, fl.dLink) /\ ~inject
               THEN /\ fs' = SymlinkFs(fs, RelLink(fl.dLink, fl.wLink), fl.dLink, Now)
                    /\ errs' = errs
                    /\ rpc' = "d_linked"
                    /\ ret' = ret
               ELSE /\ fs' = fs
                    /\ errs' = errs + 1
                    /\ Continue(DBlockPc(fl, filesToDelete, moved, delFile), errs')
    /\ UNCHANGED <<retention, rotateEnabled, safety, filesMap, filesToDelete,
                   todo, cur, delFile, moved, hist, bakType>>
    /\ UNCHANGED rotFrame
    /\ Log(errs' - errs)

\* line 297: the new daily link is logged
RelinkD_Logged ==
    /\ rpc = "d_linked"
    /\ Log(1)
    /\ Continue(DBlockPc(filesMap[cur], filesToDelete, moved, delFile), errs)
    /\ UNCHANGED <<fs, retention, rotateEnabled, safety, mayFail, filesMap, filesToDelete,
                   todo, cur, delFile, moved, errs, hist, bakType>>
    /\ UNCHANGED rotFrame

\* lines 302-305, moveFile line 459: remove the daily link
MoveD_Remove ==
    /\ rpc = "m_remove"
    /\ delFile' = FALSE
    /\ \E inject \in BOOLEAN :
        /\ Inject(inject)
        /\ LET fl == filesMap[cur]
           IN  IF RemoveOk(fs, fl.dLink) /\ ~inject
               THEN fs' = RemoveFs(fs, fl.dLink) /\ errs' = errs /\ Continue("m_rename", errs')
               ELSE fs' = fs /\ errs' = errs + 1 /\ Continue("loop", errs')
    /\ UNCHANGED <<retention, rotateEnabled, safety, filesMap, filesToDelete,
                   todo, cur, moved, hist, bakType>>
    /\ UNCHANGED rotFrame
    /\ Log(errs' - errs)

\* line 305, moveFile line 462: rename the candidate onto the daily link's path
MoveD_Rename ==
    /\ rpc = "m_rename"
    /\ \E inject \in BOOLEAN :
        /\ Inject(inject)
        /\ LET fl == filesMap[cur]
           IN  IF RenameOk(fs, cur, fl.dLink) /\ ~inject
               THEN /\ fs' = RenameFs(fs, cur, fl.dLink)
                    /\ errs' = errs
                    /\ hist' = [hist EXCEPT !.moveAfterDelete = @ \/ hist.deleted]
                    /\ rpc' = "m_moved"
                    /\ ret' = ret
               ELSE fs' = fs /\ errs' = errs + 1 /\ hist' = hist /\ Continue("loop", errs')
    /\ UNCHANGED <<retention, rotateEnabled, safety, filesMap, filesToDelete,
                   todo, cur, delFile, moved, bakType>>
    /\ UNCHANGED rotFrame
    /\ Log(errs' - errs)

\* line 309: the move is logged
MoveD_Logged ==
    /\ rpc = "m_moved"
    /\ Log(1)
    /\ Continue("loop", errs)
    /\ UNCHANGED <<fs, retention, rotateEnabled, safety, mayFail, filesMap, filesToDelete,
                   todo, cur, delFile, moved, errs, hist, bakType>>
    /\ UNCHANGED rotFrame

\* lines 314-322: the candidate is removed
DeleteFile ==
    /\ rpc = "del"
    /\ \E inject \in BOOLEAN :
        /\ Inject(inject)
        /\ IF RemoveOk(fs, cur) /\ ~inject
           THEN /\ fs' = RemoveFs(fs, cur)
                /\ errs' = errs
                /\ hist' = [hist EXCEPT !.deleted = TRUE]
                /\ rpc' = "deleted"
                /\ ret' = ret
           ELSE fs' = fs /\ errs' = errs + 1 /\ hist' = hist /\ Continue("loop", errs')
    /\ UNCHANGED <<retention, rotateEnabled, safety, filesMap, filesToDelete,
                   todo, cur, delFile, moved, bakType>>
    /\ UNCHANGED rotFrame
    /\ Log(errs' - errs)

\* line 320: the removal is logged
DeleteFile_Logged ==
    /\ rpc = "deleted"
    /\ Log(1)
    /\ Continue("loop", errs)
    /\ UNCHANGED <<fs, retention, rotateEnabled, safety, mayFail, filesMap, filesToDelete,
                   todo, cur, delFile, moved, errs, hist, bakType>>
    /\ UNCHANGED rotFrame

\* ------------------------------------------------------- delivery (SMB)
Months == 1..12

Years == {"previous_year", "year"}

\* a path of an incremental job below <backupPath>/<ofsPart>: year directory, month
\* directory, and the artifact ("tar"), its sidecar ("inc") or the directory itself
IncPaths ==
    (Years \X Months \X {"tar", "inc", "dir"}) \cup (Years \X {0} \X {"dir"})

\* the entry of a year directory and of a month directory: "dir" when it exists
YearDir(y) == <<y, 0, "dir">>

MonthDir(y, m) == <<y, m, "dir">>

\* contents of a file of an incremental job: "none" (no such file), "tar" and "inc" (the
\* temp artifact and its .inc file), "empty" and "partial" (what a failed copy leaves)
EmptyIncFs == [p \in IncPaths |-> "none"]

\* the run whose artifact is delivered: the newest one
NewName == MaxNames

\* the highest-order bucket of a set
Top(S) == CHOOSE b \in S : \A c \in S : Rank(b) <= Rank(c)

\* storage.GetDescBackupDstAndLinks: the artifact goes to the highest applicable bucket
\* in use, and every lower applicable bucket in use gets a symlink to it
GetDescBackupDstAndLinks(n, A, r) ==
    LET use == A \cap Configured(r)
    IN  IF use = {}
        THEN [err |-> TRUE, bakDstPath |-> NoPath, mtdDstPath |-> NoPath, links |-> {}]
        ELSE [err |-> FALSE, bakDstPath |-> <<Top(use), n>>, mtdDstPath |-> NoPath,
              links |-> {<<b, n>> : b \in use \ {Top(use)}}]

\* storage.GetIncBackupDstAndLinks: the artifact and, next to it, its .inc sidecar
GetIncBackupDstAndLinks(m) ==
    [err |-> FALSE, bakDstPath |-> <<"year", m, "tar">>, mtdDstPath |-> <<"year", m, "inc">>,
     links |-> {}]

\* lines 102-106
DstAndLinks ==
    IF bakType = IncFiles
    THEN GetIncBackupDstAndLinks(moy)
    ELSE GetDescBackupDstAndLinks(NewName, applicable, retention)

\* share.MkdirAll of the directory of an incremental path: its year and month directory
MkdirAllInc(f, p) == [f EXCEPT ![YearDir(p[1])] = "dir", ![MonthDir(p[1], p[2])] = "dir"]

\* how SMB.copy ends: the whole source is at dstPath, or MkdirAll failed (with no
\* directory made, or the year directory only), or Create failed, or the source did not
\* open (dstPath is an empty file), or io.Copy failed (dstPath holds a part)
CopyOutcomes == {"ok", "mkdir_failed", "mkdir_year", "create_failed", "empty", "partial"}

\* lines 141-161 of SMB.copy(srcPath, dstPath), up to its log record, with the given
\* outcome; part is "tar" for the temp artifact and "inc" for its .inc file
CopyTo(dstPath, part, outcome) ==
    IF bakType = IncFiles
    THEN /\ incFs' =
              IF outcome = "mkdir_failed" THEN incFs
              ELSE IF outcome = "mkdir_year"
              THEN [incFs EXCEPT ![YearDir(dstPath[1])] = "dir"]
              ELSE IF outcome = "create_failed" THEN MkdirAllInc(incFs, dstPath)
              ELSE [MkdirAllInc(incFs, dstPath) EXCEPT
                        ![dstPath] = IF outcome = "ok" THEN part ELSE outcome]
         /\ fs' = fs
    ELSE /\ fs' = IF outcome \in {"mkdir_failed", "mkdir_year", "create_failed"} THEN fs
                  ELSE [fs EXCEPT ![dstPath] = IF outcome = "ok" /\ part = "tar"
                                               THEN FileEntry(dstPath[2])
                                               ELSE [FileEntry(dstPath[2]) EXCEPT !.data = 0]]
         /\ incFs' = incFs

\* lines 95-110: the destination of the artifact and of its links
DeliveryBackup ==
    /\ dpc = "idle"
    /\ LET d == DstAndLinks
       IN  IF d.err
           THEN dpc' = "done" /\ dret' = "err" /\ dLinks' = dLinks
           ELSE /\ dpc' = IF d.mtdDstPath # NoPath THEN "copy_mtd" ELSE "copy_bak"
                /\ dLinks' = d.links
                /\ dret' = dret
    /\ UNCHANGED <<fs, incFs, mayFail>>
    /\ UNCHANGED dlvFrame
    /\ Log(IF dret' = "err" THEN 1 ELSE 0)

\* line 113: SMB.copy of the sidecar, up to its log record
CopyMeta ==
    /\ dpc = "copy_mtd"
    /\ \E outcome \in CopyOutcomes :
        /\ Inject(outcome # "ok")
        /\ CopyTo(DstAndLinks.bakDstPath, "inc", outcome)
        /\ dpc' = IF outcome = "ok" THEN "mtd_copied" ELSE "mtd_failed"
    /\ UNCHANGED <<dLinks, dret>>
    /\ UNCHANGED dlvFrame
    /\ Log(0)

\* line 119: SMB.copy of the artifact, up to its log record
CopyBackup ==
    /\ dpc = "copy_bak"
    /\ \E outcome \in CopyOutcomes :
        /\ Inject(outcome # "ok")
        /\ CopyTo(DstAndLinks.bakDstPath, "tar", outcome)
        /\ dpc' = IF outcome = "ok" THEN "bak_copied" ELSE "bak_failed"
    /\ UNCHANGED <<dLinks, dret>>
    /\ UNCHANGED dlvFrame
    /\ Log(0)

\* lines 145, 151, 157, 162 and 166: SMB.copy logs how it ended and returns
CopyLogged ==
    /\ dpc \in {"mtd_copied", "mtd_failed", "bak_copied", "bak_failed"}
    /\ Log(1)
    /\ dpc' = IF dpc = "mtd_copied" THEN "copy_bak"
              ELSE IF dpc = "bak_copied" THEN (IF dLinks = {} THEN "done" ELSE "links")
              ELSE "upload_failed"
    /\ dret' = IF dpc = "bak_copied" /\ dLinks = {} THEN "nil" ELSE dret
    /\ UNCHANGED <<fs, incFs, mayFail, dLinks>>
    /\ UNCHANGED dlvFrame

\* lines 114-115 and 120-121: the failed upload is logged and its error returned
UploadFailed ==
    /\ dpc = "upload_failed"
    /\ Log(1)
    /\ dpc' = "done"
    /\ dret' = "err"
    /\ UNCHANGED <<fs, incFs, mayFail, dLinks>>
    /\ UNCHANGED dlvFrame

\* lines 124-136: one iteration of the loop over the links map, taken in any order
MakeLink ==
    /\ dpc = "links"
    /\ \E dst \in dLinks, inject \in BOOLEAN :
        /\ Inject(inject)
        /\ IF SymlinkOk(fs, dst) /\ ~inject
           THEN /\ fs' = SymlinkFs(fs, DstAndLinks.bakDstPath, dst, NewName)
                /\ dLinks' = dLinks \ {dst}
                /\ dpc' = IF dLinks' = {} THEN "done" ELSE "links"
                /\ dret' = IF dLinks' = {} THEN "nil" ELSE dret
           ELSE /\ fs' = fs
                /\ dLinks' = dLinks
                /\ dpc' = "done"
                /\ dret' = "err"
    /\ incFs' = incFs
    /\ UNCHANGED dlvFrame
    /\ Log(IF dret' = "err" THEN 1 ELSE 0)

\* the caller invokes DeliveryBackup again with the same arguments after it has returned,
\* at a time when the storage is healthy
DeliverAgain ==
    /\ dpc = "done"
    /\ ~redelivery
    /\ redelivery' = TRUE
    /\ dpc' = "idle"
    /\ dret' = "none"
    /\ dLinks' = {}
    /\ mayFail' = FALSE
    /\ UNCHANGED <<fs, incFs, fs0, incFs0, strays0>>
    /\ UNCHANGED <<retention, rotateEnabled, safety, rpc, filesMap, filesToDelete, todo, cur,
                   delFile, moved, errs, ret, hist, bakType, moy, applicable, jobVars,
                   runVars, cloneVars, initVars, incVars, sinkUp>>
    /\ Log(0)

\* ------------------------------------------- contents a storage starts with
Lower(c, S) == {b \in S : Rank(b) > Rank(c)}

\* how the artifact of one run is stored: absent (canon = ""), or one regular file in
\* bucket canon with symlinks to it from the lower-order buckets links
Shapes(S) ==
    {[canon |-> "", links |-> {}]} \cup
    UNION {{[canon |-> c, links |-> L] : L \in SUBSET Lower(c, S)} : c \in S}

ShapeEntry(sh, p) ==
    IF p[1] = sh.canon THEN FileEntry(p[2])
    ELSE IF p[1] \in sh.links THEN LinkEntry(<<sh.canon, p[2]>>, p[2])
    ELSE NoEntry

ShapeSize(sh) == IF sh.canon = "" THEN 0 ELSE 1 + Cardinality(sh.links)

RECURSIVE SumSizes(_, _)
SumSizes(lay, ns) ==
    IF ns = {} THEN 0
    ELSE LET n == CHOOSE x \in ns : TRUE IN ShapeSize(lay[n]) + SumSizes(lay, ns \ {n})

\* three adjacent periods of the list
Windows ==
    {{RetentionPeriodsList[i], RetentionPeriodsList[i + 1], RetentionPeriodsList[i + 2]} :
        i \in 1..(Len(RetentionPeriodsList) - 2)}

\* retention settings: every period unused, or given a count (an age) of 1..MaxRet; the
\* periods in use lie within three adjacent ones
Retentions ==
    {r \in [useCount : BOOLEAN, val : [Buckets -> 0..MaxRet]] :
        \E w \in Windows : Configured(r) \subseteq w}

\* ------------------------------------------------------------ job runner
Targets == 1..MaxTargets

Storages == 1..MaxStorages

\* the job types of the two adapters
PostgresqlBasebackup == "postgresql_basebackup"

MongoDB == "mongodb"

JobTypes == {PostgresqlBasebackup, MongoDB}

\* a storage: every operation on its share succeeds unless the share itself forbids it
\* (a Symlink on a path that exists), the first copy of each artifact fails, every copy
\* fails, no link can be made on it (MkdirAll of the directory of a link, or Symlink,
\* fails), or the path resolver finds no destination with its backup path and retention
StorageKinds == {"healthy", "flaky", "down", "linkless", "no_dst"}

\* time.Since(startTime).Nanoseconds() / 1e6: whole milliseconds, 0 when less than one
\* has passed
Elapsed == {0, 1}

\* startTime.Unix()
StartUnix == 1

\* size of the temp artifact of a target: a tar is never empty
ArtifactSize(t) == t

NoPass ==
    [kind |-> "none", todo |-> {}, ofs |-> 0, st |-> 0, step |-> "none", tries |-> 0,
     oErrs |-> 0, errs |-> 0]

\* no Storages.DeleteOldBackups is running
NoRotPass == [ofs |-> 0, st |-> 0]

NoMetrics ==
    [BackupOk |-> 0, BackupTime |-> 0, DeliveryOk |-> 0, DeliveryTime |-> 0,
     BackupSize |-> 0, BackupTimestamp |-> 0]

SetOfsMetrics(m, ofs, metricsMap) ==
    [m EXCEPT ![ofs] =
        [k \in DOMAIN @ |-> IF k \in DOMAIN metricsMap THEN metricsMap[k] ELSE @[k]]]

\* the metrics DoBackup sets once the temp artifact is there
SuccessMetrics(size, ms) == [BackupOk |-> 1, BackupTime |-> ms, BackupSize |-> size]

\* a failure branch that sets no time
FailureMetricsNoTime(ms) == [BackupOk |-> 0]

\* the metrics DoBackup sets when createTmpBackup failed
FailureMetrics(ms) == [BackupTime |-> ms]

\* the targets whose BackupTime is set, once SetOfsMetrics has stored metricsMap for ofs
Timed(S, ofs, metricsMap) == IF "BackupTime" \in DOMAIN metricsMap THEN S \cup {ofs} ELSE S

SetDumpObjectDelivered(objs, ofs) == [objs EXCEPT ![ofs] = "delivered"]

\* a publication that makes the map anew
PublishAnew(objs, ofs) == [o \in Targets |-> IF o = ofs THEN "pending" ELSE "none"]

\* j.dumpedObjects[ofsPart] = interfaces.DumpObject{TmpFile: tmpBackupFile}
PublishDumpObject(objs, ofs) == [objs EXCEPT ![ofs] = "pending"]

GetDumpObjects(objs) == {o \in Targets : objs[o] # "none"}

\* targz.Tar whose error is dropped
TarErrDropped(ok) == FALSE

\* targz.Tar returned an error
TarErr(ok) == ~ok

\* a failed target ends DoBackup
ReturnOnFailure == "return"

\* where the target loop goes after a target failed: continue
AfterFailure == "loop"

\* a delivery after every target whatever the mode
DeliverAlways(deferred) == TRUE

\* the guard of the delivery that follows a target: !j.deferredCopying
DeliverAfterTarget(deferred) == ~deferred

\* Storages.Delivery starts: it ranges over the dump objects of the job
StartPass(kind, objs) == [NoPass EXCEPT !.kind = kind, !.todo = GetDumpObjects(objs)]

\* a failed upload is never tried again
NoRetry(tries) == FALSE

\* Storages.Delivery tries a failed upload once more: one retry per storage and artifact
MayRetry(tries) == tries < 2

\* SMB.copy of the artifact of ofs to storage s returns no error
UploadOk(s, ofs) ==
    CASE stKind[s] = "flaky" -> uploads[<<s, ofs>>] > 0
      [] stKind[s] = "down" -> FALSE
      [] OTHER -> TRUE

\* lines 124-136, the loop over links: no link to make, or MkdirAll and Symlink of the
\* link succeed; Symlink fails on a path that exists
LinksOk(s, ofs) ==
    ~hasLinks \/ (stKind[s] # "linkless" /\ ~linked[<<s, ofs>>])

\* the job at rest
JobIdle ==
    /\ deferredCopying = FALSE
    /\ jpc = "idle"
    /\ jtodo = {}
    /\ jcur = 0
    /\ dumpedObjects = [o \in Targets |-> "none"]
    /\ metrics = [o \in Targets |-> NoMetrics]
    /\ jerrs = 0
    /\ jret = "none"
    /\ stage = [o \in Targets |-> "idle"]
    /\ dumpDir = {}
    /\ tmpFile = [o \in Targets |-> 0]
    /\ stKind = [s \in Storages |-> "healthy"]
    /\ hasLinks = FALSE
    /\ jcols = 0
    /\ linked = [x \in Storages \X Targets |-> FALSE]
    /\ uploads = [x \in Storages \X Targets |-> 0]
    /\ remote = [x \in Storages \X Targets |-> FALSE]
    /\ pass = NoPass
    /\ timed = {}
    /\ rotated = [x \in Storages \X Targets |-> 0]
    /\ rotPass = NoRotPass
    /\ rotRet = [o \in Targets |-> "none"]
    /\ regLock = "free"

\* DoBackup is called
DoBackup ==
    /\ iret.job
    /\ jpc = "idle"
    /\ jpc' = "loop"
    /\ jtodo' = Targets
    /\ UNCHANGED <<deferredCopying, jcur, dumpedObjects, metrics, jerrs, jret, stage,
                   dumpDir, tmpFile, stKind, hasLinks, jcols, linked, uploads, remote,
                   pass, timed>>
    /\ UNCHANGED jobFrame
    /\ Log(0)

\* lines 210-223: the loop takes a target, in the order of the map, zeroes its metrics
\* and makes the directory of its temp artifact
NextTarget ==
    /\ jpc = "loop"
    /\ \E t \in jtodo, ok \in BOOLEAN :
        /\ jtodo' = jtodo \ {t}
        /\ jcur' = t
        /\ metrics' = SetOfsMetrics(metrics, t,
                        [NoMetrics EXCEPT !.BackupTimestamp = StartUnix])
        /\ jpc' = IF ok THEN "start" ELSE "mkdir_failed"
        /\ stage' = [stage EXCEPT ![t] = IF ok THEN "started" ELSE "mkdir_failed"]
        /\ timed' = timed \ {t}
    /\ UNCHANGED <<deferredCopying, dumpedObjects, jerrs, jret, dumpDir, tmpFile, stKind,
                   hasLinks, jcols, linked, uploads, remote, pass>>
    /\ UNCHANGED jobFrame
    /\ Log(0)

\* lines 225-227 and 234-236: the failure of the target is logged and appended, and the
\* loop continues
TargetFailed ==
    /\ jpc \in {"mkdir_failed", "target_failed"}
    /\ Log(1)
    /\ jerrs' = jerrs + 1
    /\ jpc' = AfterFailure
    /\ jcur' = 0
    /\ UNCHANGED <<deferredCopying, jtodo, dumpedObjects, metrics, jret, stage, dumpDir,
                   tmpFile, stKind, hasLinks, jcols, linked, uploads, remote, pass,
                   timed>>
    /\ UNCHANGED jobFrame

\* createTmpBackup of psql_physical, lines 296-298: the command is logged, then cmd.Start
DumpStart ==
    /\ iEnv.type = PostgresqlBasebackup
    /\ jpc = "start"
    /\ Log(1)
    /\ \E ok \in BOOLEAN :
        /\ jpc' = IF ok THEN "wait" ELSE "start_failed"
        /\ dumpDir' = IF ok THEN dumpDir \cup {jcur} ELSE dumpDir
    /\ UNCHANGED <<deferredCopying, jtodo, jcur, dumpedObjects, metrics, jerrs, jret,
                   stage, tmpFile, stKind, hasLinks, jcols, linked, uploads, remote, pass,
                   timed>>
    /\ UNCHANGED jobFrame

\* createTmpBackup, lines 302-304: the start is logged, then cmd.Wait
DumpWait ==
    /\ jpc = "wait"
    /\ Log(1)
    /\ \E ok \in BOOLEAN :
        /\ jpc' = IF ok THEN "tar" ELSE "dump_failed"
        /\ stage' = IF ok THEN [stage EXCEPT ![jcur] = "dumped"] ELSE stage
    /\ UNCHANGED <<deferredCopying, jtodo, jcur, dumpedObjects, metrics, jerrs, jret,
                   dumpDir, tmpFile, stKind, hasLinks, jcols, linked, uploads, remote,
                   pass, timed>>
    /\ UNCHANGED jobFrame

\* createTmpBackup, lines 308-326: the end of the dump is logged, then targz.Tar; after a
\* Tar without error the dump directory is removed. An error of Tar is a targz.Error,
\* which carries the output of tar, or another error
Pack ==
    /\ jpc = "tar"
    /\ Log(1)
    /\ \E ok \in BOOLEAN, serr \in BOOLEAN :
        IF TarErr(ok)
        THEN /\ jpc' = IF serr THEN "tar_stderr" ELSE "tar_failed"
             /\ UNCHANGED <<stage, tmpFile, dumpDir>>
        ELSE /\ ~serr
             /\ jpc' = "packed"
             /\ stage' = [stage EXCEPT ![jcur] = IF ok THEN "packed" ELSE "tar_failed"]
             /\ tmpFile' = [tmpFile EXCEPT ![jcur] = ArtifactSize(jcur)]
             /\ dumpDir' = dumpDir \ {jcur}
    /\ UNCHANGED <<deferredCopying, jtodo, jcur, dumpedObjects, metrics, jerrs, jret,
                   stKind, hasLinks, jcols, linked, uploads, remote, pass, timed>>
    /\ UNCHANGED jobFrame

\* createTmpBackup, lines 319-320 (mongodump: 360-361): the error of Tar is logged, the
\* output of tar follows
TarFailed ==
    /\ jpc = "tar_stderr"
    /\ Log(1)
    /\ jpc' = "tar_failed"
    /\ UNCHANGED <<deferredCopying, jtodo, jcur, dumpedObjects, metrics, jerrs, jret,
                   stage, dumpDir, tmpFile, stKind, hasLinks, jcols, linked, uploads,
                   remote, pass, timed>>
    /\ UNCHANGED jobFrame

\* the dump directories once createTmpBackup has returned for target t: psql_physical has
\* no deferred call; the mongodump adapter defers os.RemoveAll of the directory (line 305)
Deferred(dirs, t) == IF iEnv.type = MongoDB THEN dirs \ {t} ELSE dirs

\* createTmpBackup of the mongodump adapter, lines 351-366: targz.Tar of the dump
\* directory, which is there once a mongodump has written it (dirs); what follows is the
\* record of the error of Tar (360), or the record of the completed dump (368)
MongoTar(dirs) ==
    \E ok \in BOOLEAN, serr \in BOOLEAN :
        /\ ok => jcur \in dirs
        /\ IF TarErr(ok)
           THEN /\ jpc' = IF serr THEN "tar_stderr" ELSE "tar_failed"
                /\ UNCHANGED <<stage, tmpFile>>
           ELSE /\ ~serr
                /\ jpc' = "packed"
                /\ stage' = [stage EXCEPT ![jcur] = IF ok THEN "packed" ELSE "tar_failed"]
                /\ tmpFile' = [tmpFile EXCEPT ![jcur] = ArtifactSize(jcur)]

\* createTmpBackup of the mongodump adapter, lines 303-335 and 351: the start of the dump
\* is logged; the loop over target.collections follows, and Tar when there is none
MongoDumpStart ==
    /\ iEnv.type = MongoDB
    /\ jpc = "start"
    /\ Log(1)
    /\ \E n \in 0..MaxCollections :
        /\ jcols' = n
        /\ IF n = 0
           THEN MongoTar(dumpDir)
           ELSE jpc' = "dump_cmd" /\ UNCHANGED <<stage, tmpFile>>
    /\ UNCHANGED <<deferredCopying, jtodo, jcur, dumpedObjects, metrics, jerrs, jret,
                   dumpDir, stKind, hasLinks, linked, uploads, remote, pass, timed>>
    /\ UNCHANGED jobFrame

\* lines 336-351: the command of a collection is logged, then cmd.Run starts it and waits
\* for it; a mongodump that fails may have made the dump directory; after the last
\* collection Tar follows
MongoDumpCollection ==
    /\ jpc = "dump_cmd"
    /\ Log(1)
    /\ \E ok \in BOOLEAN, made \in BOOLEAN :
        IF ok
        THEN /\ made
             /\ dumpDir' = dumpDir \cup {jcur}
             /\ jcols' = jcols - 1
             /\ IF jcols' = 0
                THEN MongoTar(dumpDir')
                ELSE jpc' = "dump_cmd" /\ UNCHANGED <<stage, tmpFile>>
        ELSE /\ dumpDir' = IF made THEN dumpDir \cup {jcur} ELSE dumpDir
             /\ jpc' = "run_failed"
             /\ UNCHANGED <<jcols, stage, tmpFile>>
    /\ UNCHANGED <<deferredCopying, jtodo, jcur, dumpedObjects, metrics, jerrs, jret,
                   stKind, hasLinks, linked, uploads, remote, pass, timed>>
    /\ UNCHANGED jobFrame

\* lines 342-343: the error of mongodump is logged, then its standard output; its
\* standard error follows
MongoRunFailed ==
    /\ jpc \in {"run_failed", "run_stdout"}
    /\ Log(1)
    /\ jpc' = IF jpc = "run_failed" THEN "run_stdout" ELSE "dump_failed"
    /\ UNCHANGED <<deferredCopying, jtodo, jcur, dumpedObjects, metrics, jerrs, jret,
                   stage, dumpDir, tmpFile, stKind, hasLinks, jcols, linked, uploads,
                   remote, pass, timed>>
    /\ UNCHANGED jobFrame

\* createTmpBackup, lines 299-300, 305-306 and 319-324 (mongodump: 344-345 and 360-365):
\* the last record of a failure is sent and the error returned; DoBackup, lines 230-233
\* (269-271), sets the time
TmpBackupFailed ==
    /\ jpc \in {"start_failed", "dump_failed", "tar_failed"}
    /\ Log(1)
    /\ \E ms \in Elapsed :
        /\ metrics' = SetOfsMetrics(metrics, jcur, FailureMetrics(ms))
        /\ timed' = Timed(timed, jcur, FailureMetrics(ms))
    /\ stage' = [stage EXCEPT ![jcur] = jpc]
    /\ dumpDir' = Deferred(dumpDir, jcur)
    /\ jpc' = "target_failed"
    /\ UNCHANGED <<deferredCopying, jtodo, jcur, dumpedObjects, jerrs, jret, tmpFile,
                   stKind, hasLinks, jcols, linked, uploads, remote, pass>>
    /\ UNCHANGED jobFrame

\* createTmpBackup, lines 328-330 (mongodump: 368-370): the temp backup is logged and nil
\* returned; DoBackup, lines 238-243 (276-281), sets the metrics of the artifact
TmpBackupCreated ==
    /\ jpc = "packed"
    /\ Log(1)
    /\ \E ms \in Elapsed :
        /\ metrics' = SetOfsMetrics(metrics, jcur, SuccessMetrics(tmpFile[jcur], ms))
        /\ timed' = Timed(timed, jcur, SuccessMetrics(tmpFile[jcur], ms))
    /\ dumpDir' = Deferred(dumpDir, jcur)
    /\ jpc' = "created"
    /\ UNCHANGED <<deferredCopying, jtodo, jcur, dumpedObjects, jerrs, jret, stage,
                   tmpFile, stKind, hasLinks, jcols, linked, uploads, remote, pass>>
    /\ UNCHANGED jobFrame

\* lines 245-249: the artifact is logged, its dump object published and, unless the
\* copying is deferred, Storages.Delivery called
Publish ==
    /\ jpc = "created"
    /\ Log(1)
    /\ dumpedObjects' = PublishDumpObject(dumpedObjects, jcur)
    /\ jcur' = 0
    /\ IF DeliverAfterTarget(deferredCopying)
       THEN /\ jpc' = "delivery"
            /\ pass' = StartPass("target", dumpedObjects')
       ELSE /\ jpc' = "loop"
            /\ pass' = pass
    /\ UNCHANGED <<deferredCopying, jtodo, metrics, jerrs, jret, stage, dumpDir, tmpFile,
                   stKind, hasLinks, jcols, linked, uploads, remote, timed>>
    /\ UNCHANGED jobFrame

\* the loop is over: the trailing Storages.Delivery
TrailingDelivery ==
    /\ jpc = "loop"
    /\ jtodo = {}
    /\ jpc' = "delivery"
    /\ pass' = StartPass("trailing", dumpedObjects)
    /\ UNCHANGED <<deferredCopying, jtodo, jcur, dumpedObjects, metrics, jerrs, jret,
                   stage, dumpDir, tmpFile, stKind, hasLinks, jcols, linked, uploads,
                   remote, timed>>
    /\ UNCHANGED jobFrame
    /\ Log(0)

\* a dump object is handed to the storages unless it is delivered already
NeedsDelivery(objs, ofs) == objs[ofs] # "delivered"

\* Storages.Delivery takes the next dump object, in the order of the map
DeliveryNextObject ==
    /\ jpc = "delivery"
    /\ pass.ofs = 0
    /\ \E o \in pass.todo :
        pass' = IF NeedsDelivery(dumpedObjects, o)
                THEN [pass EXCEPT !.todo = @ \ {o}, !.ofs = o, !.st = 1,
                                  !.step = "upload", !.tries = 0, !.oErrs = 0]
                ELSE [pass EXCEPT !.todo = @ \ {o}]
    /\ UNCHANGED <<deferredCopying, jpc, jtodo, jcur, dumpedObjects, metrics, jerrs, jret,
                   stage, dumpDir, tmpFile, stKind, hasLinks, jcols, linked, uploads,
                   remote, timed>>
    /\ UNCHANGED jobFrame
    /\ Log(0)

\* Storages.Delivery calls DeliveryBackup of the storage it is at, for the first time or
\* as the retry. SMB.DeliveryBackup, lines 95-119: the resolver gives the destination or
\* an error; with a destination SMB.copy of the artifact follows, up to its log record
DeliveryUpload ==
    /\ jpc = "delivery"
    /\ pass.step = "upload"
    /\ LET x == <<pass.st, pass.ofs>>
       IN  /\ uploads' = [uploads EXCEPT ![x] = @ + 1]
           /\ IF stKind[x[1]] = "no_dst"
              THEN /\ remote' = remote
                   /\ pass' = [pass EXCEPT !.tries = @ + 1, !.step = "dst_failed"]
              ELSE /\ remote' = [remote EXCEPT ![x] = @ \/ UploadOk(x[1], x[2])]
                   /\ pass' = [pass EXCEPT !.tries = @ + 1,
                                            !.step = IF UploadOk(x[1], x[2]) THEN "copied"
                                                     ELSE "copy_failed"]
    /\ UNCHANGED <<deferredCopying, jpc, jtodo, jcur, dumpedObjects, metrics, jerrs, jret,
                   stage, dumpDir, tmpFile, stKind, hasLinks, jcols, linked, timed>>
    /\ UNCHANGED jobFrame
    /\ Log(0)

\* DeliveryBackup has returned, with e errors: Storages.Delivery goes to the next storage;
\* after the last one the object is marked delivered if no storage refused it
AfterUpload(e) ==
    LET o == pass.ofs
        oe == pass.oErrs + e
    IN  IF pass.st < MaxStorages
        THEN /\ pass' = [pass EXCEPT !.st = @ + 1, !.step = "upload", !.tries = 0,
                                     !.oErrs = oe]
             /\ UNCHANGED <<dumpedObjects, metrics>>
        ELSE /\ pass' = [pass EXCEPT !.ofs = 0, !.st = 0, !.step = "none", !.tries = 0,
                                     !.oErrs = 0, !.errs = @ + oe]
             /\ IF oe = 0
                THEN /\ dumpedObjects' = SetDumpObjectDelivered(dumpedObjects, o)
                     /\ \E ms \in Elapsed :
                          metrics' = SetOfsMetrics(metrics, o,
                                       [DeliveryOk |-> 1, DeliveryTime |-> ms])
                ELSE UNCHANGED <<dumpedObjects, metrics>>

\* SMB.copy logs how it ended and returns (lines 145-169). After a copy without error
\* SMB.DeliveryBackup, lines 124-138, makes the links: it returns nil when there is none
\* to make or each is made, and has a record to send when MkdirAll or Symlink failed
DeliveryCopyLogged ==
    /\ jpc = "delivery"
    /\ pass.step \in {"copied", "copy_failed"}
    /\ Log(1)
    /\ LET x == <<pass.st, pass.ofs>>
       IN  IF pass.step = "copy_failed"
           THEN /\ pass' = [pass EXCEPT !.step = "upload_failed"]
                /\ UNCHANGED <<dumpedObjects, metrics, linked>>
           ELSE IF LinksOk(x[1], x[2])
           THEN /\ linked' = [linked EXCEPT ![x] = hasLinks]
                /\ AfterUpload(0)
           ELSE /\ pass' = [pass EXCEPT !.step = "link_failed"]
                /\ UNCHANGED <<dumpedObjects, metrics, linked>>
    /\ UNCHANGED <<deferredCopying, jpc, jtodo, jcur, jerrs, jret, stage, dumpDir,
                   tmpFile, stKind, hasLinks, jcols, uploads, remote, timed>>
    /\ UNCHANGED jobFrame

\* SMB.DeliveryBackup logs that it has no destination (line 108), that the upload failed
\* (120) or that a link was not made (128, 133), and returns the error; Storages.Delivery
\* calls it once more for the same storage, or counts the error when that was the retry
DeliveryUploadFailed ==
    /\ jpc = "delivery"
    /\ pass.step \in {"dst_failed", "upload_failed", "link_failed"}
    /\ Log(1)
    /\ IF MayRetry(pass.tries)
       THEN /\ pass' = [pass EXCEPT !.step = "upload"]
            /\ UNCHANGED <<dumpedObjects, metrics>>
       ELSE AfterUpload(1)
    /\ UNCHANGED <<deferredCopying, jpc, jtodo, jcur, jerrs, jret, stage, dumpDir,
                   tmpFile, stKind, hasLinks, jcols, linked, uploads, remote, timed>>
    /\ UNCHANGED jobFrame

\* lines 249-253 and 257-260: Storages.Delivery returns to DoBackup, which logs and
\* appends its error
DeliveryReturn ==
    /\ jpc = "delivery"
    /\ pass.ofs = 0
    /\ pass.todo = {}
    /\ jerrs' = jerrs + (IF pass.errs > 0 THEN 1 ELSE 0)
    /\ jpc' = IF pass.kind = "trailing" THEN "return" ELSE "loop"
    /\ pass' = NoPass
    /\ UNCHANGED <<deferredCopying, jtodo, jcur, dumpedObjects, metrics, jret, stage,
                   dumpDir, tmpFile, stKind, hasLinks, jcols, linked, uploads, remote,
                   timed>>
    /\ UNCHANGED jobFrame
    /\ Log(jerrs' - jerrs)

\* line 262: return errs.ErrorOrNil()
DoBackupReturn ==
    /\ jpc = "return"
    /\ jpc' = "done"
    /\ jret' = ErrorOrNil(jerrs)
    /\ UNCHANGED <<deferredCopying, jtodo, jcur, dumpedObjects, metrics, jerrs, stage,
                   dumpDir, tmpFile, stKind, hasLinks, jcols, linked, uploads, remote,
                   pass, timed>>
    /\ UNCHANGED jobFrame
    /\ Log(0)

\* the run rotates at any moment
RotateAnytime == TRUE

\* the run is in its rotation step, which follows the execution step
RotateAllowed == jpc = "done"

\* job.DeleteOldBackups(ofsPath), called by the run for each OFS once: the call is logged
\* and Storages.DeleteOldBackups starts
JobDeleteOldBackups ==
    /\ RotateAllowed
    /\ rotPass = NoRotPass
    /\ Log(1)
    /\ \E o \in Targets :
        /\ rotRet[o] = "none"
        /\ rotPass' = [ofs |-> o, st |-> 1]
    /\ UNCHANGED <<rotVars, dlvVars, jobVars, sideVars, incVars, sinkUp, rotated, rotRet,
                   regLock>>

\* Storages.DeleteOldBackups calls DeleteOldBackups of the next storage, which logs that
\* rotation is disabled and returns nil, or finds no period in use and returns nil; after
\* the last storage job.DeleteOldBackups returns
StorageDeleteOldBackups ==
    /\ rotPass # NoRotPass
    /\ ~rotateEnabled \/ Scanned(retention) = {}
    /\ Log(IF rotateEnabled THEN 0 ELSE 1)
    /\ rotated' = [rotated EXCEPT ![<<rotPass.st, rotPass.ofs>>] = @ + 1]
    /\ IF rotPass.st < MaxStorages
       THEN /\ rotPass' = [rotPass EXCEPT !.st = @ + 1]
            /\ rotRet' = rotRet
       ELSE /\ rotPass' = NoRotPass
            /\ rotRet' = [rotRet EXCEPT ![rotPass.ofs] = "nil"]
    /\ UNCHANGED <<rotVars, dlvVars, jobVars, sideVars, incVars, sinkUp, regLock>>

\* job.CleanupTmpData(), called by the run once every OFS is rotated: the temp artifacts
\* whose dump object is delivered are removed
CleanupTmpData ==
    /\ jpc = "done"
    /\ rotPass = NoRotPass
    /\ \A o \in Targets : rotRet[o] # "none"
    /\ tmpFile' = [t \in Targets |-> IF dumpedObjects[t] = "delivered" THEN 0
                                     ELSE tmpFile[t]]
    /\ jpc' = "cleaned"
    /\ UNCHANGED <<deferredCopying, jtodo, jcur, dumpedObjects, metrics, jerrs, jret,
                   stage, dumpDir, stKind, hasLinks, jcols, linked, uploads, remote, pass,
                   timed>>
    /\ UNCHANGED jobFrame
    /\ Log(0)

\* ------------------------------------------------------ storage handles
Handles == {"s", "c"}

Sessions == {1, 2}

\* the zero value of storage.Retention (UseCount false, every period 0), and the Retention
\* of a storage that keeps one daily backup
ZeroRetention == [useCount |-> FALSE, val |-> [b \in Buckets |-> 0]]

OneDaily == [useCount |-> TRUE, val |-> [b \in Buckets |-> IF b = Daily THEN 1 ELSE 0]]

\* strings are sequences of characters
BackupPaths == {<<"/", "a">>, <<"a">>, <<"b">>}

RateLimits == {0, 1}

\* the argument of Configure
Params == [BackupPath : BackupPaths, RateLimit : RateLimits, RotateEnabled : BOOLEAN,
           Retention : {ZeroRetention, OneDaily}]

\* strings.TrimPrefix
TrimPrefix(str, prefix) ==
    IF Len(str) >= Len(prefix) /\ SubSeq(str, 1, Len(prefix)) = prefix
    THEN SubSeq(str, Len(prefix) + 1, Len(str))
    ELSE str

\* no SMB value behind the handle
NoHandle == [exists |-> FALSE, backupPath |-> <<>>, rateLimit |-> 0,
             rotateEnabled |-> FALSE, retention |-> ZeroRetention]

\* smb.Init(sName, params, rl): the SMB value with its name and rate limit set
NewHandle(rl) == [NoHandle EXCEPT !.exists = TRUE, !.rateLimit = rl]

\* cl := *s copies the fields session and share, which are pointers: the copy refers to
\* the session and the share of the original
CloneSession(id) == id

\* a call on the share of a handle goes through while its session is logged on
Usable(h) == hCfg[h].exists /\ sessOpen[hSess[h]]

UsableNext(h) == hCfg'[h].exists /\ sessOpen'[hSess'[h]]

\* SMB.Clone on a handle, giving the other handle
Clone ==
    /\ \E h \in Handles, cl \in Handles :
        /\ hCfg[h].exists
        /\ ~hCfg[cl].exists
        /\ hCfg' = [hCfg EXCEPT ![cl] = hCfg[h]]
        /\ hSess' = [hSess EXCEPT ![cl] = CloneSession(hSess[h])]
        /\ lastOp' = [h |-> h, op |-> "Clone", ok |-> TRUE]
    /\ UNCHANGED sessOpen
    /\ UNCHANGED <<rotVars, dlvVars, jobVars, runVars, histVars, incVars, logVars, initVars>>

\* SMB.Configure(p) on a handle
Configure ==
    /\ \E h \in Handles, p \in Params :
        /\ hCfg[h].exists
        /\ hCfg' = [hCfg EXCEPT ![h] = [exists |-> TRUE,
                                        backupPath |-> TrimPrefix(p.BackupPath, <<"/">>),
                                        rateLimit |-> p.RateLimit,
                                        rotateEnabled |-> p.RotateEnabled,
                                        retention |-> p.Retention]]
        /\ lastOp' = [h |-> h, op |-> "Configure", ok |-> TRUE]
    /\ UNCHANGED <<hSess, sessOpen>>
    /\ UNCHANGED <<rotVars, dlvVars, jobVars, runVars, histVars, incVars, logVars, initVars>>

\* SMB.DeleteOldBackups on a handle never reaches the share when rotation is disabled
\* (lines 173-176) or when no period is configured (every period skipped, 196-198)
ReachesShare(cfg) == cfg.rotateEnabled /\ Scanned(cfg.retention) # {}

\* SMB.DeleteOldBackups of a descending job on a handle whose share holds no backup: it
\* reads the fields of the handle; with rotation disabled it logs and returns nil; the
\* ReadDir of the first configured period fails, is logged and returned when the session
\* is closed
HandleDeleteOldBackups ==
    /\ \E h \in Handles :
        /\ hCfg[h].exists
        /\ lastOp' = [h |-> h, op |-> "DeleteOldBackups",
                      ok |-> ~ReachesShare(hCfg[h]) \/ sessOpen[hSess[h]]]
        /\ Log(IF ~hCfg[h].rotateEnabled \/ (ReachesShare(hCfg[h]) /\ ~sessOpen[hSess[h]])
               THEN 1 ELSE 0)
    /\ UNCHANGED <<hCfg, hSess, sessOpen>>
    /\ UNCHANGED <<rotVars, dlvVars, jobVars, runVars, histVars, incVars, sinkUp, initVars>>

\* SMB.Close on a handle: s.share.Umount() and s.session.Logoff()
Close ==
    /\ \E h \in Handles :
        /\ hCfg[h].exists
        /\ sessOpen' = [sessOpen EXCEPT ![hSess[h]] = FALSE]
        /\ lastOp' = [h |-> h, op |-> "Close", ok |-> sessOpen[hSess[h]]]
    /\ UNCHANGED <<hCfg, hSess>>
    /\ UNCHANGED <<rotVars, dlvVars, jobVars, runVars, histVars, incVars, logVars, initVars>>

NoOp == [h |-> "", op |-> "", ok |-> TRUE]

\* one handle, as smb.Init returns it
InitHandle(rl) ==
    /\ hCfg = [h \in Handles |-> IF h = "s" THEN NewHandle(rl) ELSE NoHandle]
    /\ hSess = [h \in Handles |-> IF h = "s" THEN 1 ELSE 0]
    /\ sessOpen = [i \in Sessions \cup {0} |-> i = 1]
    /\ lastOp = NoOp

CloneIdle == InitHandle(0)

\* ------------------------------------------------------- Init of the job
JobNames == {"job_a", "job_b"}

\* the binary whose version Init asks for first
DumpBinary(type) == IF type = PostgresqlBasebackup THEN "pg_basebackup" ELSE "mongodump"

\* what Init meets at a source: a forbidden extra key (-D, --pgdata), a connection that
\* fails, a ping or a listing that fails, or nothing of that
SourceOutcomes(type) ==
    IF type = PostgresqlBasebackup
    THEN {"ok", "forbidden_key", "connect_err", "ping_err"}
    ELSE {"ok", "connect_err", "list_err"}

\* the sources on which Init connects before it finds the outcome
Connects(type, outcome) == ~(type = PostgresqlBasebackup /\ outcome = "forbidden_key")

NoErr == [job |-> "", what |-> ""]

\* fmt.Errorf("Job `%s` init failed. ...", jp.Name, ...)
InitFailed(name, what) == [job |-> name, what |-> what]

\* a probe whose failure Init does not look at
ProbeErrIgnored(ok) == FALSE

\* exec_cmd.Exec(binary, "--version") returned an error
ProbeErr(ok) == ~ok

\* Init has not been called
InitCalled ==
    /\ ipc = "probe_dump"
    /\ isrc = 0
    /\ iret = [err |-> NoErr, job |-> FALSE]
    /\ connects = {}
    /\ registered = {}

\* Init has returned a job of the given type
ConstructedJob(type) ==
    /\ ipc = "done"
    /\ iEnv = [name |-> "job_a", type |-> type, dumpBin |-> TRUE, tar |-> TRUE,
               src |-> [t \in Targets |-> "ok"]]
    /\ isrc = MaxTargets + 1
    /\ iret = [err |-> NoErr, job |-> TRUE]
    /\ connects = Targets
    /\ registered = Targets

\* Init has returned the job
Constructed == ConstructedJob(PostgresqlBasebackup)

\* return nil, fmt.Errorf(...)
InitReturnsError(what) ==
    /\ iret' = [err |-> InitFailed(iEnv.name, what), job |-> FALSE]
    /\ ipc' = "done"

\* Init, the version probe of the dump binary
InitProbeDump ==
    /\ ipc = "probe_dump"
    /\ IF ProbeErr(iEnv.dumpBin)
       THEN InitReturnsError(DumpBinary(iEnv.type))
       ELSE ipc' = "probe_tar" /\ iret' = iret
    /\ UNCHANGED <<iEnv, isrc, connects, registered>>
    /\ UNCHANGED <<rotVars, dlvVars, jobVars, runVars, histVars, incVars, logVars, cloneVars>>

\* Init, the version probe of tar
InitProbeTar ==
    /\ ipc = "probe_tar"
    /\ IF ProbeErr(iEnv.tar)
       THEN InitReturnsError("tar")
       ELSE ipc' = "register" /\ iret' = iret
    /\ UNCHANGED <<iEnv, isrc, connects, registered>>
    /\ UNCHANGED <<rotVars, dlvVars, jobVars, runVars, histVars, incVars, logVars, cloneVars>>

\* Init, the job value and jp.Metrics.RegisterJob
InitRegister ==
    /\ ipc = "register"
    /\ ipc' = "sources"
    /\ isrc' = 1
    /\ UNCHANGED <<iEnv, iret, connects, registered>>
    /\ UNCHANGED <<rotVars, dlvVars, jobVars, runVars, histVars, incVars, logVars, cloneVars>>

\* Init, one iteration of the loop over jp.Sources
InitSource ==
    /\ ipc = "sources"
    /\ isrc <= MaxTargets
    /\ LET outcome == iEnv.src[isrc]
       IN  /\ connects' = IF Connects(iEnv.type, outcome) THEN connects \cup {isrc}
                          ELSE connects
           /\ IF outcome = "ok"
              THEN /\ registered' = registered \cup {isrc}
                   /\ isrc' = isrc + 1
                   /\ UNCHANGED <<ipc, iret>>
              ELSE /\ InitReturnsError(outcome)
                   /\ UNCHANGED <<registered, isrc>>
    /\ UNCHANGED iEnv
    /\ UNCHANGED <<rotVars, dlvVars, jobVars, runVars, histVars, incVars, logVars, cloneVars>>

\* Init, return &j, nil
InitReturn ==
    /\ ipc = "sources"
    /\ isrc > MaxTargets
    /\ ipc' = "done"
    /\ iret' = [err |-> NoErr, job |-> TRUE]
    /\ UNCHANGED <<iEnv, isrc, connects, registered>>
    /\ UNCHANGED <<rotVars, dlvVars, jobVars, runVars, histVars, incVars, logVars, cloneVars>>

\* what is at rest in a rotation, a delivery or a run: the log consumer reads, the
\* storage has one handle, the job is the one Init returned
SideIdle ==
    /\ LogIdle
    /\ CloneIdle
    /\ Constructed

\* ------------------------------------------- incremental rotation (SMB)
\* deleteIncBackup not called
IncIdle ==
    /\ full = FALSE
    /\ months = 0
    /\ incYear = "year"
    /\ incTodo = {}
    /\ lastMonth = 0
    /\ strays = {}
    /\ strays0 = strays

\* the month directories that exist below a year directory
MonthDirs(f, y) == {m \in Months : f[MonthDir(y, m)] = "dir"}

\* the year directories that exist
YearDirs(f) == {y \in Years : f[YearDir(y)] = "dir"}

Digits == <<"0", "1", "2", "3", "4", "5", "6", "7", "8", "9">>

IsDigit(ch) == \E i \in 1..Len(Digits) : Digits[i] = ch

DigitValue(ch) == (CHOOSE i \in 1..Len(Digits) : Digits[i] = ch) - 1

MonthPrefix == <<"m", "o", "n", "t", "h", "_">>

\* the directory month_<MM> of month m
MonthName(m) == MonthPrefix \o <<Digits[(m \div 10) + 1], Digits[(m % 10) + 1]>>

\* names found below a year directory that are not month_<MM> of a month: a day
\* directory, a month name with a third digit, a month name with something in front
StrayNames ==
    { <<"d", "a", "y", "_", "0", "1">>,
      MonthPrefix \o <<"0", "1", "1">>,
      <<"o", "l", "d", "_">> \o MonthPrefix \o <<"0", "1">> }

\* regexp.MustCompile(`month_\d\d`).MatchString: the pattern occurs somewhere in the name
RxMatch(n) ==
    \E i \in 1..Len(n) :
        /\ i + 7 <= Len(n)
        /\ SubSeq(n, i, i + 5) = MonthPrefix
        /\ IsDigit(n[i + 6])
        /\ IsDigit(n[i + 7])

\* index of the first "_" of n, Len(n) + 1 when there is none
Underscore(n) ==
    IF \E i \in 1..Len(n) : n[i] = "_"
    THEN CHOOSE i \in 1..Len(n) : n[i] = "_" /\ \A j \in 1..(i - 1) : n[j] # "_"
    ELSE Len(n) + 1

\* strings.Split(dirName, "_")[1]: what stands between the first "_" and the next one
SplitSecond(n) ==
    LET rest == SubSeq(n, Underscore(n) + 1, Len(n))
    IN  SubSeq(rest, 1, Underscore(rest) - 1)

\* the number a string of digits denotes
RECURSIVE DigitsValue(_)
DigitsValue(n) ==
    IF n = <<>> THEN 0 ELSE 10 * DigitsValue(SubSeq(n, 1, Len(n) - 1)) + DigitValue(n[Len(n)])

\* a non-empty string of digits
IsNumber(n) == n # <<>> /\ \A i \in 1..Len(n) : IsDigit(n[i])

\* dirMonth, _ := strconv.Atoi(...): the value of an optionally signed string of digits,
\* 0 when the text is not a number
Atoi(n) ==
    IF IsNumber(n) THEN DigitsValue(n)
    ELSE IF n # <<>> /\ n[1] \in {"+", "-"} /\ IsNumber(Tail(n))
    THEN IF n[1] = "-" THEN 0 - DigitsValue(Tail(n)) ELSE DigitsValue(Tail(n))
    ELSE 0

\* share.ReadDir of a year directory: the names of its entries
IncReadDir(f, st, y) ==
    {MonthName(m) : m \in MonthDirs(f, y)} \cup {e[2] : e \in {x \in st : x[1] = y}}

\* share.RemoveAll of a set of month directories
RemoveAllDirs(f, D) == [p \in IncPaths |-> IF <<p[1], p[2]>> \in D THEN "none" ELSE f[p]]

\* share.RemoveAll of the entry n of the year directory y
IncRemoveEntry(f, y, n) ==
    RemoveAllDirs(f, {d \in {y} \X Months : MonthName(d[2]) = n})

\* line 341: lastMonth := intMoy - s.Months
LastMonth(m, k) == m - k

\* a month branch that stays in the current year when the difference is zero
IncYearNonNegative(m, k) == IF LastMonth(m, k) >= 0 THEN "year" ELSE "previous_year"

\* lines 343-349: the year directory and the month the loop compares with
IncYear(m, k) == IF LastMonth(m, k) > 0 THEN "year" ELSE "previous_year"

IncLastMonth(m, k) == IF LastMonth(m, k) > 0 THEN LastMonth(m, k) ELSE LastMonth(m, k) + 12

\* the entries of the share below the entry p: the month directories and files of a year
\* directory, the files of a month directory
Below(f, p) ==
    {q \in IncPaths :
        /\ f[q] # "none"
        /\ q # p
        /\ q[1] = p[1]
        /\ p[3] = "dir"
        /\ p[2] = 0 \/ q[2] = p[2]}

\* what a RemoveAll of <backupPath>/<ofsPart> that fails may leave: the tree st, f with
\* any of its entries gone, a directory only once everything below it is gone
PartlyPurged(f, st) ==
    {<<[p \in IncPaths |-> IF p \in F THEN "none" ELSE f[p]], st \ S>> :
        <<F, S>> \in
            {x \in (SUBSET {p \in IncPaths : f[p] # "none"}) \X (SUBSET st) :
                \A p \in x[1] :
                    /\ Below(f, p) \subseteq x[1]
                    /\ p[2] = 0 => \A y \in st : y[1] = p[1] => y \in x[2]}}

\* lines 331-334: RemoveAll of <backupPath>/<ofsPart>; a RemoveAll that fails has removed
\* any part of the tree, from nothing to everything
IncRemoveAll ==
    /\ rpc = "inc_full"
    /\ \E inject \in BOOLEAN :
        /\ Inject(inject)
        /\ IF inject
           THEN \E left \in PartlyPurged(incFs, strays) :
                    /\ incFs' = left[1]
                    /\ strays' = left[2]
                    /\ rpc' = "inc_full_failed"
                    /\ ret' = ret
           ELSE /\ incFs' = EmptyIncFs
                /\ strays' = {}
                /\ rpc' = "done"
                /\ ret' = ErrorOrNil(errs)
    /\ UNCHANGED <<fs, retention, rotateEnabled, safety, filesMap, filesToDelete, todo, cur,
                   delFile, moved, errs, hist, bakType>>
    /\ UNCHANGED <<moy, applicable, dpc, dLinks, dret>>
    /\ UNCHANGED <<jobVars, runVars, sideVars, full, months, incYear, incTodo, lastMonth,
                   sinkUp>>
    /\ Log(0)

\* lines 335-338 and 377: the error of RemoveAll is logged, appended and returned
IncRemoveAllFailed ==
    /\ rpc = "inc_full_failed"
    /\ Log(1)
    /\ errs' = errs + 1
    /\ rpc' = "done"
    /\ ret' = ErrorOrNil(errs')
    /\ UNCHANGED <<fs, retention, rotateEnabled, safety, mayFail, filesMap, filesToDelete,
                   todo, cur, delFile, moved, hist, bakType>>
    /\ UNCHANGED <<dlvVars, jobVars, runVars, sideVars, incVars, sinkUp>>

\* lines 340-357: the month branch picks the year directory and reads it; a ReadDir that
\* fails (the directory is absent, or the share fails) is logged and its error returned
IncScan ==
    /\ rpc = "inc_scan"
    /\ incYear' = IncYear(moy, months)
    /\ lastMonth' = IncLastMonth(moy, months)
    /\ \E inject \in BOOLEAN :
        /\ Inject(inject)
        /\ IF inject \/ incYear' \notin YearDirs(incFs)
           THEN /\ rpc' = "done"
                /\ ret' = "err"
                /\ incTodo' = {}
           ELSE /\ rpc' = "inc_loop"
                /\ ret' = ret
                /\ incTodo' = IncReadDir(incFs, strays, incYear')
    /\ UNCHANGED <<fs, retention, rotateEnabled, safety, filesMap, filesToDelete, todo, cur,
                   delFile, moved, errs, hist, bakType>>
    /\ UNCHANGED <<dlvVars, jobVars, runVars, sideVars, full, months, strays, sinkUp>>
    /\ Log(IF ret' = "err" THEN 1 ELSE 0)

\* what a RemoveAll of the entry n of year directory y that fails may leave: the entry
\* with any of its files gone
PartlyRemoved(f, y, n) ==
    {[p \in IncPaths |-> IF p \in F THEN "none" ELSE f[p]] :
        F \in SUBSET {q \in IncPaths : /\ q[1] = y
                                       /\ q[2] \in Months
                                       /\ MonthName(q[2]) = n
                                       /\ q[3] # "dir"
                                       /\ f[q] # "none"}}

\* lines 359-365: the next entry of the listing, in the order of the listing; one that
\* matches the pattern and whose number is less than lastMonth is removed whole
IncNextDir ==
    /\ rpc = "inc_loop"
    /\ incTodo # {}
    /\ \E dirName \in incTodo :
           /\ incTodo' = incTodo \ {dirName}
           /\ IF RxMatch(dirName) /\ Atoi(SplitSecond(dirName)) < lastMonth
              THEN \E inject \in BOOLEAN :
                     /\ Inject(inject)
                     /\ IF inject
                        THEN /\ incFs' \in PartlyRemoved(incFs, incYear, dirName)
                             /\ strays' = strays
                             /\ rpc' = "inc_remove_failed"
                        ELSE /\ incFs' = IncRemoveEntry(incFs, incYear, dirName)
                             /\ strays' = strays \ {<<incYear, dirName>>}
                             /\ rpc' = "inc_removed"
              ELSE UNCHANGED <<incFs, strays, mayFail, rpc>>
    /\ UNCHANGED <<fs, retention, rotateEnabled, safety, filesMap, filesToDelete, todo, cur,
                   delFile, moved, errs, hist, bakType, ret>>
    /\ UNCHANGED <<moy, applicable, dpc, dLinks, dret>>
    /\ UNCHANGED <<jobVars, runVars, sideVars, full, months, incYear, lastMonth, sinkUp>>
    /\ Log(0)

\* lines 366-371: the outcome of the RemoveAll is logged, its error appended
IncRemoveLogged ==
    /\ rpc \in {"inc_removed", "inc_remove_failed"}
    /\ Log(1)
    /\ errs' = IF rpc = "inc_remove_failed" THEN errs + 1 ELSE errs
    /\ rpc' = "inc_loop"
    /\ UNCHANGED <<fs, retention, rotateEnabled, safety, mayFail, filesMap, filesToDelete,
                   todo, cur, delFile, moved, ret, hist, bakType>>
    /\ UNCHANGED <<dlvVars, jobVars, runVars, sideVars, incVars, sinkUp>>

\* line 377: return errs.ErrorOrNil()
IncReturn ==
    /\ rpc = "inc_loop"
    /\ incTodo = {}
    /\ rpc' = "done"
    /\ ret' = ErrorOrNil(errs)
    /\ UNCHANGED <<fs, retention, rotateEnabled, safety, mayFail, filesMap, filesToDelete,
                   todo, cur, delFile, moved, errs, hist, bakType>>
    /\ UNCHANGED <<dlvVars, jobVars, runVars, sideVars, incVars, sinkUp>>
    /\ Log(0)

\* the delivery part of the storage at rest
DlvIdle ==
    /\ IncIdle
    /\ incFs = EmptyIncFs
    /\ incFs0 = incFs
    /\ moy = 1
    /\ applicable = {}
    /\ dpc = "idle"
    /\ dLinks = {}
    /\ dret = "none"
    /\ redelivery = FALSE

InitStorage ==
    /\ SideIdle
    /\ DlvIdle
    /\ JobIdle
    /\ retention \in Retentions
    /\ safety \in BOOLEAN
    /\ rotateEnabled \in BOOLEAN
    /\ rotateEnabled = FALSE => (safety = FALSE /\ retention.useCount)
    /\ bakType = "postgresql_basebackup"
    /\ \E lay \in [Names -> Shapes(Configured(retention))] :
        /\ SumSizes(lay, Names) <= MaxEntries
        /\ fs = [p \in Paths |-> ShapeEntry(lay[p[2]], p)]
    /\ rpc = "idle"
    /\ filesMap = EmptyFilesMap
    /\ filesToDelete = {}
    /\ todo = {}
    /\ cur = NoPath
    /\ delFile = FALSE
    /\ moved = FALSE
    /\ errs = 0
    /\ ret = "none"
    /\ hist = NoHist
    /\ fs0 = fs

NextRot ==
    \/ DeleteOldBackups
    \/ PickCandidate
    \/ MoveW_Remove
    \/ MoveW_Rename
    \/ MoveW_Logged
    \/ RelinkD_Remove
    \/ RelinkD_Symlink
    \/ RelinkD_Logged
    \/ MoveD_Remove
    \/ MoveD_Rename
    \/ MoveD_Logged
    \/ DeleteFile
    \/ DeleteFile_Logged

\* a rotation on a healthy share
InitRot == InitStorage /\ mayFail = FALSE

\* a rotation during which one operation on the share may fail
InitRotFaulty == InitStorage /\ mayFail = TRUE


NextRotFaulty == NextRot \/ ScanReadDirFails

SpecRot == InitRot /\ [][NextRot]_vars

SpecRotFaulty == InitRotFaulty /\ [][NextRotFaulty]_vars

\* a count-mode rotation of a job with the safety backup, on a healthy share
InitRotSafety == InitRot /\ rotateEnabled /\ retention.useCount /\ safety

SpecRotSafety == InitRotSafety /\ [][NextRot]_vars

\* the runs whose daily link an earlier rotation may have written again (lines 292-293):
\* their artifact was promoted to the weekly bucket and has a daily link
Relinkable(lay) == {n \in Names : lay[n].canon = Weekly /\ Daily \in lay[n].links}

\* the entry at p when the daily links of the runs in late were written again by a
\* rotation that ran at the time of the latest run
AgedEntry(lay, late, p) ==
    IF p[1] = Daily /\ p[2] \in late
    THEN LinkEntry(<<Weekly, p[2]>>, MaxNames)
    ELSE ShapeEntry(lay[p[2]], p)

\* an age-mode rotation on a healthy share that earlier rotations have gone over
InitRotAged ==
    /\ SideIdle
    /\ DlvIdle
    /\ JobIdle
    /\ retention \in {r \in Retentions : ~r.useCount}
    /\ safety \in BOOLEAN
    /\ rotateEnabled = TRUE
    /\ mayFail = FALSE
    /\ bakType = "postgresql_basebackup"
    /\ \E lay \in [Names -> Shapes(Configured(retention))] :
        /\ SumSizes(lay, Names) <= MaxEntries
        /\ \E late \in SUBSET Relinkable(lay) :
              fs = [p \in Paths |-> AgedEntry(lay, late, p)]
    /\ rpc = "idle"
    /\ filesMap = EmptyFilesMap
    /\ filesToDelete = {}
    /\ todo = {}
    /\ cur = NoPath
    /\ delFile = FALSE
    /\ moved = FALSE
    /\ errs = 0
    /\ ret = "none"
    /\ hist = NoHist
    /\ fs0 = fs

SpecRotAged == InitRotAged /\ [][NextRot]_vars

\* ------------------------------------------------- delivery to the share
\* a delivery to an OFS that holds nothing yet: of an incremental artifact in any month,
\* or of a descending artifact whose timestamp falls on any boundaries
InitDlv ==
    /\ SideIdle
    /\ JobIdle
    /\ mayFail \in BOOLEAN
    /\ rotateEnabled = TRUE
    /\ safety = FALSE
    /\ \/ /\ bakType = IncFiles
          /\ retention = [useCount |-> TRUE, val |-> [b \in Buckets |-> 0]]
          /\ moy \in Months
          /\ applicable = {}
       \/ /\ bakType = "postgresql_basebackup"
          /\ retention \in {r \in Retentions : r.useCount}
          /\ moy = 1
          /\ applicable \in SUBSET Buckets
    /\ fs = [p \in Paths |-> NoEntry]
    /\ IncIdle
    /\ incFs = EmptyIncFs
    /\ incFs0 = incFs
    /\ dpc = "idle"
    /\ dLinks = {}
    /\ dret = "none"
    /\ redelivery = FALSE
    /\ rpc = "idle"
    /\ filesMap = EmptyFilesMap
    /\ filesToDelete = {}
    /\ todo = {}
    /\ cur = NoPath
    /\ delFile = FALSE
    /\ moved = FALSE
    /\ errs = 0
    /\ ret = "none"
    /\ hist = NoHist
    /\ fs0 = fs

NextDlv ==
    \/ DeliveryBackup
    \/ CopyMeta
    \/ CopyBackup
    \/ CopyLogged
    \/ UploadFailed
    \/ MakeLink

SpecDlv == InitDlv /\ [][NextDlv]_vars

\* a delivery that the caller repeats once
NextRedlv == NextDlv \/ DeliverAgain

SpecRedlv == InitDlv /\ [][NextRedlv]_vars

\* ------------------------------------------- rotation of incremental backups
\* the OFS of an incremental job after earlier deliveries: D is the set of its month
\* directories, each holding an artifact, and Y the set of its other year directories
IncLayout(D, Y) ==
    [p \in IncPaths |->
        IF p[2] = 0 THEN (IF p[1] \in Y \cup {d[1] : d \in D} THEN "dir" ELSE "none")
        ELSE IF <<p[1], p[2]>> \in D /\ p[3] \in {"dir", "tar"} THEN p[3]
        ELSE "none"]

\* the sets of at most k month directories
RECURSIVE IncDirSets(_)
IncDirSets(k) ==
    IF k = 0 THEN {{}}
    ELSE LET S == IncDirSets(k - 1)
         IN  S \cup {D \cup {d} : D \in S, d \in Years \X Months}

\* DeleteOldBackups of an incremental job: either value of full and of rotateEnabled, at
\* most MaxIncDirs entries (month directories, other entries, empty year directories)
\* below <backupPath>/<ofsPart>, and, where the month branch runs and reads them, any
\* month of the year and any retention in months
InitIncOn(otherEntries, otherYears) ==
    /\ SideIdle
    /\ JobIdle
    /\ bakType = IncFiles
    /\ mayFail \in BOOLEAN
    /\ rotateEnabled \in BOOLEAN
    /\ safety = FALSE
    /\ retention = [useCount |-> TRUE, val |-> [b \in Buckets |-> 0]]
    /\ full \in BOOLEAN
    /\ months \in 0..MaxRet
    /\ incYear = "year"
    /\ incTodo = {}
    /\ lastMonth = 0
    /\ moy \in Months
    /\ (full \/ ~rotateEnabled) => (months = 0 /\ moy = 1)
    /\ \E D \in IncDirSets(MaxIncDirs) :
        \E S \in otherEntries :
        \E Y \in otherYears :
            /\ Y \cap ({d[1] : d \in D} \cup {x[1] : x \in S}) = {}
            /\ Cardinality(D) + Cardinality(S) + Cardinality(Y) <= MaxIncDirs
            /\ incFs = IncLayout(D, Y \cup {x[1] : x \in S})
            /\ strays = S
    /\ strays0 = strays
    /\ incFs0 = incFs
    /\ applicable = {}
    /\ fs = [p \in Paths |-> NoEntry]
    /\ dpc = "idle"
    /\ dLinks = {}
    /\ dret = "none"
    /\ redelivery = FALSE
    /\ rpc = "idle"
    /\ filesMap = EmptyFilesMap
    /\ filesToDelete = {}
    /\ todo = {}
    /\ cur = NoPath
    /\ delFile = FALSE
    /\ moved = FALSE
    /\ errs = 0
    /\ ret = "none"
    /\ hist = NoHist
    /\ fs0 = fs

\* the call on an OFS whose year directories hold any entries, or none
InitIncStray == InitIncOn(SUBSET (Years \X StrayNames), SUBSET Years)

\* the same call on an OFS made of month directories only: every year directory holds
\* one, and nothing else; the share may fail once
InitInc == InitIncOn({{}}, {{}}) /\ mayFail

NextInc ==
    \/ DeleteOldBackups
    \/ IncRemoveAll
    \/ IncRemoveAllFailed
    \/ IncScan
    \/ IncNextDir
    \/ IncRemoveLogged
    \/ IncReturn

SpecInc == InitInc /\ [][NextInc]_vars

SpecIncStray == InitIncStray /\ [][NextInc]_vars

\* ------------------------------------------------------------- a job run
\* the storage part of the model at rest
RotIdle ==
    /\ fs = [p \in Paths |-> NoEntry]
    /\ retention = ZeroRetention
    /\ rotateEnabled = FALSE
    /\ safety = FALSE
    /\ mayFail = FALSE
    /\ bakType = iEnv.type
    /\ rpc = "idle"
    /\ filesMap = EmptyFilesMap
    /\ filesToDelete = {}
    /\ todo = {}
    /\ cur = NoPath
    /\ delFile = FALSE
    /\ moved = FALSE
    /\ errs = 0
    /\ ret = "none"
    /\ hist = NoHist
    /\ fs0 = fs

\* a job of MaxTargets targets and MaxStorages storages, in either copying mode, before
\* its run
InitJobBody ==
    /\ RotIdle
    /\ DlvIdle
    /\ deferredCopying \in BOOLEAN
    /\ stKind \in [Storages -> StorageKinds]
    /\ hasLinks \in BOOLEAN
    /\ jcols = 0
    /\ linked = [x \in Storages \X Targets |-> FALSE]
    /\ jpc = "idle"
    /\ jtodo = {}
    /\ jcur = 0
    /\ dumpedObjects = [o \in Targets |-> "none"]
    /\ metrics = [o \in Targets |-> NoMetrics]
    /\ jerrs = 0
    /\ jret = "none"
    /\ stage = [o \in Targets |-> "idle"]
    /\ dumpDir = {}
    /\ tmpFile = [o \in Targets |-> 0]
    /\ uploads = [x \in Storages \X Targets |-> 0]
    /\ remote = [x \in Storages \X Targets |-> FALSE]
    /\ pass = NoPass
    /\ timed = {}
    /\ rotated = [x \in Storages \X Targets |-> 0]
    /\ rotPass = NoRotPass
    /\ rotRet = [o \in Targets |-> "none"]
    /\ regLock = "free"

\* a job of either adapter, as Init returned it
InitJob ==
    /\ LogIdle
    /\ CloneIdle
    /\ \E type \in JobTypes : ConstructedJob(type)
    /\ InitJobBody

NextJob ==
    \/ DoBackup
    \/ NextTarget
    \/ TargetFailed
    \/ DumpStart
    \/ DumpWait
    \/ Pack
    \/ MongoDumpStart
    \/ MongoDumpCollection
    \/ MongoRunFailed
    \/ TarFailed
    \/ TmpBackupFailed
    \/ TmpBackupCreated
    \/ Publish
    \/ TrailingDelivery
    \/ DeliveryNextObject
    \/ DeliveryUpload
    \/ DeliveryCopyLogged
    \/ DeliveryUploadFailed
    \/ DeliveryReturn
    \/ DoBackupReturn

SpecJob == InitJob /\ [][NextJob]_vars

\* the run of a job: DoBackup, then the rotation of every OFS, then the cleanup
NextRun ==
    \/ NextJob
    \/ JobDeleteOldBackups
    \/ StorageDeleteOldBackups
    \/ CleanupTmpData

SpecRun == InitJob /\ [][NextRun]_vars

\* a job run whose log consumer may stop at any moment
NextLog ==
    \/ NextRun
    \/ SinkStops

SpecLog == InitJob /\ [][NextLog]_vars

\* a reader of the metrics registry takes the lock of the job's entry for reading
RegistryRLock ==
    /\ regLock = "free"
    /\ regLock' = "reader"
    /\ UNCHANGED <<rotVars, dlvVars, jobVars, sideVars, incVars, logVars, rotated, rotPass,
                   rotRet>>

\* the reader is done
RegistryRUnlock ==
    /\ regLock = "reader"
    /\ regLock' = "free"
    /\ UNCHANGED <<rotVars, dlvVars, jobVars, sideVars, incVars, logVars, rotated, rotPass,
                   rotRet>>

\* a job run next to a reader of the metrics registry
NextScrape ==
    \/ NextRun
    \/ RegistryRLock
    \/ RegistryRUnlock

SpecScrape == InitJob /\ [][NextScrape]_vars

\* ------------------------------------------------- handles of one storage
\* a storage as smb.Init returns it, with any rate limit
InitClone ==
    /\ LogIdle
    /\ Constructed
    /\ RotIdle
    /\ DlvIdle
    /\ JobIdle
    /\ \E rl \in RateLimits : InitHandle(rl)

NextClone ==
    \/ Clone
    \/ Configure
    \/ HandleDeleteOldBackups
    \/ Close

SpecClone == InitClone /\ [][NextClone]_vars

\* ------------------------------------------------- construction of a job
\* Init is called with any job name and type, with either outcome of each probe and any
\* outcome at each source
InitInit ==
    /\ LogIdle
    /\ CloneIdle
    /\ InitCalled
    /\ \E ty \in JobTypes :
        iEnv \in [name : JobNames, type : {ty}, dumpBin : BOOLEAN, tar : BOOLEAN,
                  src : [Targets -> SourceOutcomes(ty)]]
    /\ InitJobBody

\* Init, and the first steps of DoBackup on the job it returned
NextInit ==
    \/ InitProbeDump
    \/ InitProbeTar
    \/ InitRegister
    \/ InitSource
    \/ InitReturn
    \/ DoBackup
    \/ NextTarget
    \/ DumpStart
    \/ MongoDumpStart
    \/ MongoDumpCollection

SpecInit == InitInit /\ [][NextInit]_vars

\* ------------------------------------------------------------- properties
Extra == IF safety THEN 1 ELSE 0

BucketSize(f, b) == Cardinality(ReadDir(f, b))

\* C1: once a descending rotation on a healthy share has returned, every symlink left in
\* a bucket of the OFS names an existing entry of the OFS.
C1_SurvivingLinksResolve ==
    rpc = "done" => AllLinksResolve(fs)

\* C2: once a count-mode rotation on a healthy share has returned, a bucket configured
\* with count N holds at most N entries, N + 1 with the safety backup.
C2_CountBound ==
    (rpc = "done" /\ rotateEnabled /\ retention.useCount) =>
        \A b \in Configured(retention) : BucketSize(fs, b) <= retention.val[b] + Extra

\* C3: a failing mutation does not end the pass: when the rotation returns, every
\* deletion candidate has been visited, and the errors met are returned.
C3_FailureDoesNotAbort ==
    (rpc = "done" /\ filesToDelete # {}) => (todo = {} /\ (errs > 0 => ret = "err"))

\* C4: in a rotation on a healthy share no move follows a delete, and at every moment
\* of the pass every symlink of the OFS names an existing entry.
C4_MovesBeforeDeletes ==
    ~hist.moveAfterDelete /\ AllLinksResolve(fs)

\* C5: once DeliveryBackup of an incremental artifact has returned nil, the tar is at
\* bakDstPath and the .inc sidecar is at mtdDstPath.
C5_IncPairDelivered ==
    (dpc = "done" /\ dret = "nil" /\ bakType = IncFiles) =>
        /\ incFs[DstAndLinks.bakDstPath] = "tar"
        /\ incFs[DstAndLinks.mtdDstPath] = "inc"

Visited(t) == stage[t] \in {"mkdir_failed", "start_failed", "dump_failed", "tar_failed", "packed"}

Failed(t) == stage[t] \in {"mkdir_failed", "start_failed", "dump_failed", "tar_failed"}

Uploads(t) == \E s \in Storages : uploads[<<s, t>>] > 0

\* C6: when DoBackup has returned, every target was visited whatever happened to the
\* others, every target whose dump and tar succeeded has a dump object and was handed to
\* every storage, and the returned error is non-nil if a target failed.
C6_FailureDoesNotStopTheRun ==
    jpc = "done" =>
        /\ \A t \in Targets : Visited(t)
        /\ \A t \in Targets : stage[t] = "packed" =>
              /\ dumpedObjects[t] # "none"
              /\ \A s \in Storages : uploads[<<s, t>>] > 0
        /\ (\E t \in Targets : Failed(t)) => jret = "err"

C6_Witness ==
    /\ jpc = "done"
    /\ jret = "err"
    /\ \E t, u \in Targets : Failed(t) /\ stage[u] = "packed" /\ dumpedObjects[u] = "delivered"

\* the run of scenario S2 is over: deferred copying, every target dumped and packed, the
\* first storage healthy and every other one flaky
S2Done ==
    /\ jpc = "done"
    /\ deferredCopying
    /\ \A t \in Targets : stage[t] = "packed"
    /\ \A s \in Storages : stKind[s] = IF s = 1 THEN "healthy" ELSE "flaky"

C8_DeliveredStaysDelivered ==
    [][\A t \in Targets : dumpedObjects[t] = "delivered" =>
          /\ dumpedObjects'[t] = "delivered"
          /\ \A s \in Storages : uploads'[<<s, t>>] = uploads[<<s, t>>]]_vars

C8_Witness ==
    /\ jpc = "done"
    /\ ~deferredCopying
    /\ \A t \in Targets : dumpedObjects[t] = "delivered"
    /\ \A t \in Targets : \A s \in Storages : uploads[<<s, t>>] = 1

\* C9: a target has a dump object, or an upload of its artifact, only if both its dump
\* command and its tar succeeded.
C9_PublishedOnlyAfterSuccess ==
    \A t \in Targets : (dumpedObjects[t] # "none" \/ Uploads(t)) => stage[t] = "packed"

C9_Witness ==
    /\ jpc = "done"
    /\ \E t, u \in Targets :
          /\ stage[t] = "tar_failed" /\ dumpedObjects[t] = "none" /\ ~Uploads(t)
          /\ stage[u] = "packed" /\ Uploads(u)

\* C10: with deferred copying no storage is offered an artifact before the loop has
\* visited every target: every upload belongs to the trailing delivery.
C10_DeferredDeliversAtTheEnd ==
    (deferredCopying /\ \E t \in Targets : Uploads(t)) =>
        /\ \A t \in Targets : Visited(t)
        /\ jpc \in {"delivery", "return", "done", "cleaned"}
        /\ pass.kind \in {"trailing", "none"}

C10_Witness ==
    /\ deferredCopying
    /\ jpc = "done"
    /\ \A t \in Targets : stage[t] = "packed" /\ dumpedObjects[t] = "delivered"

Rotated(s) == \E t \in Targets : rotated[<<s, t>>] > 0

\* C11: no DeleteOldBackups is called on a storage while a target of the job is not yet
\* dumped or a delivery to the storage is pending or running: when one has been called,
\* every target was visited, no Storages.Delivery is running and DoBackup has returned.
C11_RotationAfterDeliveries ==
    \A s \in Storages : Rotated(s) =>
        /\ \A t \in Targets : Visited(t)
        /\ pass = NoPass
        /\ jpc \in {"done", "cleaned"}

C11_Witness ==
    /\ \A s \in Storages : \A t \in Targets : rotated[<<s, t>>] = 1
    /\ \E t \in Targets : dumpedObjects[t] = "delivered"
    /\ \E t \in Targets : Failed(t)

DumpFailed(t) == stage[t] \in {"start_failed", "dump_failed", "tar_failed"}

\* C12: when DoBackup has returned, BackupOk of a target is 1 exactly if its temp artifact
\* was produced in the run, BackupSize is then the size of the artifact, and a target
\* whose dump failed has BackupOk 0, BackupSize 0 and a recorded BackupTime: the run has
\* set it, to the whole milliseconds the attempt took.
C12_MetricsMatchArtifacts ==
    jpc = "done" => \A t \in Targets :
        /\ metrics[t].BackupOk = 1 <=> tmpFile[t] > 0
        /\ metrics[t].BackupOk = 1 => metrics[t].BackupSize = tmpFile[t]
        /\ DumpFailed(t) =>
              /\ metrics[t].BackupOk = 0
              /\ metrics[t].BackupSize = 0
              /\ t \in timed
              /\ metrics[t].BackupTime \in Elapsed

C12_Witness ==
    /\ jpc = "done"
    /\ \E t, u \in Targets :
          /\ DumpFailed(t) /\ t \in timed /\ metrics[t].BackupTime = 0
          /\ metrics[u].BackupOk = 1 /\ metrics[u].BackupSize = tmpFile[u] /\ tmpFile[u] > 0

\* the entries of bucket b older than the age of the bucket allows
TooOld(f, b) == {n \in ReadDir(f, b) : f[<<b, n>>].mtime < Now - retention.val[b]}

\* C13: once an age-mode rotation has returned without error, every entry left in a
\* configured bucket has mtime >= now - age, except at most one entry, the newest of the
\* bucket, with the safety backup.
C13_AgeBound ==
    (rpc = "done" /\ rotateEnabled /\ ~retention.useCount /\ ret = "nil") =>
        \A b \in Configured(retention) :
            \/ TooOld(fs, b) = {}
            \/ /\ safety
               /\ Cardinality(TooOld(fs, b)) = 1
               /\ \A n \in TooOld(fs, b) : \A m \in ReadDir(fs, b) :
                     fs[<<b, m>>].mtime <= fs[<<b, n>>].mtime

\* the names left in bucket b when all but its k newest entries are taken away
NewestSets(f, b, k) ==
    {ReadDir(f, b) \ S : S \in OldestSets(f, b, ReadDir(f, b), BucketSize(f, b) - k)}

\* the scan of deleteDescBackup taken alone: one call in count mode, on a share on
\* which one operation may fail
InitScan == InitRotFaulty /\ retention.useCount

NextScan == DeleteOldBackups \/ ScanReadDirFails

SpecScan == InitScan /\ [][NextScan]_vars

\* C14: with count mode and the safety backup, a bucket configured with count N that
\* held more than N + 1 entries holds exactly N + 1 once the rotation has returned: its
\* N + 1 newest ones.
C14_SafetyKeepsOneMore ==
    (rpc = "done" /\ rotateEnabled /\ retention.useCount /\ safety) =>
        \A b \in Configured(retention) :
            BucketSize(fs0, b) > retention.val[b] + 1 =>
                /\ BucketSize(fs, b) = retention.val[b] + 1
                /\ ReadDir(fs, b) \in NewestSets(fs0, b, retention.val[b] + 1)

\* C15 as stated: when DeleteOldBackups with full = true for an incremental job returns
\* no error, the OFS directory is absent or empty on the storage
C15_FullPurgeEmpties ==
    (rpc = "done" /\ bakType = IncFiles /\ full /\ ret = "nil") =>
        (incFs = EmptyIncFs /\ strays = {})

\* C15: when DeleteOldBackups with full = true for an incremental job returns no error on
\* a storage with rotation enabled, the OFS directory is absent or empty on the storage
C15_FullPurgeEmptiesWhenRotating ==
    (rpc = "done" /\ bakType = IncFiles /\ full /\ rotateEnabled /\ ret = "nil") =>
        (incFs = EmptyIncFs /\ strays = {})

\* a full purge of an OFS that held month directories has returned no error
C15_Witness ==
    /\ rpc = "done"
    /\ bakType = IncFiles
    /\ full
    /\ rotateEnabled
    /\ ret = "nil"
    /\ incFs0 # EmptyIncFs
    /\ incFs = EmptyIncFs
    /\ strays = {}

\* the contents of the regular files of a share
Contents(f) == {f[p].data : p \in {q \in Paths : f[q].kind = "file"}}

\* C16: descending rotation never creates a new path: the entry paths present after
\* deleteDescBackup are a subset of those present before it, and every regular file
\* present afterwards carries the content of a regular file that existed before
C16_NoNewPaths ==
    (rpc = "done" /\ bakType # IncFiles) =>
        \A p \in Paths :
            Exists(fs, p) =>
                /\ Exists(fs0, p)
                /\ fs[p].kind = "file" => fs[p].data \in Contents(fs0)

\* a rotation has moved a file onto the path of a link and deleted another entry
C16_Witness ==
    /\ rpc = "done"
    /\ bakType # IncFiles
    /\ \E p \in Paths : fs[p].kind = "file" /\ fs0[p].kind = "link"
    /\ \E p \in Paths : Exists(fs0, p) /\ ~Exists(fs, p)

\* every OFS of the job was rotated after the execution step and the temp data cleaned up
RunOver == jpc = "cleaned"

\* C17: a job making progress never depends on the log sink: until DoBackup has returned
\* and every DeleteOldBackups was made, the job can take its next step, whether or not
\* the log consumer reads the channel
C17_NeverWaitsForTheSink == RunOver \/ ENABLED NextRun

\* C18: every mutation of the metrics registry made by the job happens while the writer
\* lock of the job's registry entry is held
C18_WritesUnderWriterLock == [][metrics' # metrics => regLock = "writer"]_vars

\* C19: Clone returns an independent handle: a call on one handle leaves the backup
\* path, rate limit, rotation flag and retention of the other handle unchanged and
\* leaves the other handle usable
C19_CloneIsIndependent ==
    [][\A h \in Handles :
          (hCfg[h].exists /\ lastOp'.h # h) =>
              /\ hCfg'[h] = hCfg[h]
              /\ Usable(h) => UsableNext(h)]_vars

\* a probe of Init fails
ProbeFailed == ~iEnv.dumpBin \/ ~iEnv.tar

\* C20: if the version probe of a required binary fails, Init returns an error that names
\* the job and returns no job; no temp directory is created, no connection to a source
\* is attempted and no dump is started
C20_ProbeFailureStopsInit ==
    (ipc = "done" /\ ProbeFailed) =>
        /\ iret.err # NoErr
        /\ iret.err.job = iEnv.name
        /\ ~iret.job
        /\ connects = {}
        /\ jpc = "idle"
        /\ dumpDir = {}
        /\ \A t \in Targets : stage[t] = "idle"

\* Init has returned after the probe of tar failed, the probe of the dump binary having
\* passed
C20_Witness ==
    /\ ipc = "done"
    /\ iEnv.dumpBin
    /\ ~iEnv.tar
    /\ iret.err = InitFailed(iEnv.name, "tar")
    /\ ~iret.job

\* the candidate the loop is at has a weekly link that stays and no daily link
OnlyWeekly(c) ==
    /\ c # NoPath
    /\ filesMap[c].present
    /\ filesMap[c].wLink # NoPath
    /\ filesMap[c].wLink \notin filesToDelete
    /\ filesMap[c].dLink = NoPath

\* C21: in a rotation on a healthy share, while the loop is at a candidate that has a
\* surviving weekly link and no daily link, no error is recorded and the only changes of
\* the share are those of the promotion: the removal of the weekly link and the rename of
\* the candidate onto its path.
C21_PromotionIsTheOnlyMutation ==
    [][(OnlyWeekly(cur) /\ cur' = cur) =>
          /\ errs' = errs
          /\ fs' \in {fs, RemoveFs(fs, filesMap[cur].wLink),
                      RenameFs(fs, cur, filesMap[cur].wLink)}]_vars

\* a candidate with a weekly link and a daily link that both stay
BothLinks(c) ==
    /\ filesMap[c].present
    /\ filesMap[c].wLink # NoPath
    /\ filesMap[c].wLink \notin filesToDelete
    /\ filesMap[c].dLink # NoPath
    /\ filesMap[c].dLink \notin filesToDelete

\* the regular files of a share that carry the content k
Copies(f, k) == {p \in Paths : f[p].kind = "file" /\ f[p].data = k}

\* C22: weekly wins over daily: once a rotation in which no operation failed has returned,
\* the content of a candidate that had a surviving weekly link and a surviving daily link
\* exists exactly once, as a regular file at the path of the weekly link, the path of the
\* candidate is absent, and the daily link is a symlink that names the weekly path.
C22_WeeklyWins ==
    (rpc = "done" /\ ret = "nil" /\ bakType # IncFiles) =>
        \A c \in filesToDelete :
            BothLinks(c) =>
                LET w == filesMap[c].wLink
                    d == filesMap[c].dLink
                IN  /\ ~Exists(fs, c)
                    /\ Copies(fs, fs0[c].data) = {w}
                    /\ fs[d].kind = "link"
                    /\ fs[d].tgt = w
                    /\ Resolves(fs, d)

\* a rotation that met a candidate with both links has returned without error
C22_Witness ==
    /\ rpc = "done"
    /\ ret = "nil"
    /\ bakType # IncFiles
    /\ \E c \in filesToDelete : BothLinks(c) /\ fs0[c].kind = "file"

\* the scan loop went through every period (no ReadDir failure ended the call early)
Scanned_All ==
    /\ rpc # "idle"
    /\ rotateEnabled
    /\ bakType # IncFiles
    /\ ~(ret = "err" /\ errs = 0)

\* the names of bucket b that are deletion candidates
CandidateNames(b) == {n \in Names : <<b, n>> \in filesToDelete}

\* keep = count - (0 if safetyBackup else 1)
Keep(b) == retention.val[b] - (IF safety THEN 0 ELSE 1)

\* C23: in count mode the candidates of a bucket are len - keep entries of the bucket, none
\* of them newer than an entry that is not a candidate; with len <= keep there are none, and
\* at least keep entries, the newest ones, are never candidates.
C23_CountCandidatesAreTheOldest ==
    (Scanned_All /\ retention.useCount) =>
        \A b \in Configured(retention) :
            LET cand == CandidateNames(b)
                rest == ReadDir(fs0, b) \ cand
                len == BucketSize(fs0, b)
            IN  /\ cand \subseteq ReadDir(fs0, b)
                /\ Cardinality(cand) = (IF len <= Keep(b) THEN 0 ELSE len - Keep(b))
                /\ \A x \in cand, y \in rest : fs0[<<b, x>>].mtime <= fs0[<<b, y>>].mtime
                /\ len >= Keep(b) => Cardinality(rest) = Keep(b)

C23_Witness ==
    /\ Scanned_All /\ retention.useCount
    /\ \E b \in Configured(retention) :
          /\ Keep(b) >= 1
          /\ BucketSize(fs0, b) > Keep(b)
          /\ CandidateNames(b) # {}

\* the month branch of deleteIncBackup has computed lastMonth and the year directory
IncScanned ==
    /\ bakType = IncFiles
    /\ rotateEnabled
    /\ ~full
    /\ rpc \in {"inc_loop", "done"}

\* C24 as stated: lastMonth is currentMonth - months; a negative difference wraps (12 is
\* added) and the previous year's directory is worked on, a difference that is not
\* negative is kept and the current year's directory is worked on.
C24_WrapsWhenNegative ==
    IncScanned =>
        IF moy - months < 0
        THEN incYear = "previous_year" /\ lastMonth = moy - months + 12
        ELSE incYear = "year" /\ lastMonth = moy - months

\* C24 amended: lastMonth is currentMonth - months; a difference that is zero or negative
\* wraps (12 is added) and the previous year's directory is worked on, a positive
\* difference is kept and the current year's directory is worked on.
C24_WrapsWhenNotPositive ==
    IncScanned =>
        IF moy - months <= 0
        THEN incYear = "previous_year" /\ lastMonth = moy - months + 12
        ELSE incYear = "year" /\ lastMonth = moy - months

\* the month branch ran in the month whose number equals the retention in months
C24_Witness ==
    /\ IncScanned
    /\ months > 0
    /\ moy = months
    /\ incYear = "previous_year"
    /\ lastMonth = 12

\* the name is month_NN: the prefix followed by two digits and nothing else
IsMonthName(n) ==
    /\ Len(n) = Len(MonthPrefix) + 2
    /\ SubSeq(n, 1, Len(MonthPrefix)) = MonthPrefix
    /\ IsDigit(n[Len(n) - 1])
    /\ IsDigit(n[Len(n)])

\* the numeric month NN of a name month_NN
NumericMonth(n) == 10 * DigitValue(n[Len(n) - 1]) + DigitValue(n[Len(n)])

\* C25: once incremental rotation with full = false has returned without error, the
\* applicable year directory has lost exactly its entries named month_NN with NN less than
\* lastMonth: its other entries, the contents of the month directories it keeps, and every
\* other year directory are as they were.
C25_RemovesExactlyOldMonths ==
    (IncScanned /\ rpc = "done" /\ ret = "nil") =>
        /\ IncReadDir(incFs, strays, incYear) =
              {n \in IncReadDir(incFs0, strays0, incYear) :
                  ~(IsMonthName(n) /\ NumericMonth(n) < lastMonth)}
        /\ \A y \in Years \ {incYear} :
              IncReadDir(incFs, strays, y) = IncReadDir(incFs0, strays0, y)
        /\ \A p \in IncPaths :
              incFs[p] # incFs0[p] => (p[1] = incYear /\ p[2] \in Months /\ p[2] < lastMonth)

\* what one successful DeliveryBackup to an empty OFS leaves on the share
DeliveredFs ==
    [p \in Paths |->
        IF p = DstAndLinks.bakDstPath THEN FileEntry(NewName)
        ELSE IF p \in DstAndLinks.links THEN LinkEntry(DstAndLinks.bakDstPath, NewName)
        ELSE NoEntry]

DeliveredIncFs ==
    [MkdirAllInc(EmptyIncFs, DstAndLinks.bakDstPath) EXCEPT ![DstAndLinks.bakDstPath] = "tar"]

Delivered ==
    IF bakType = IncFiles
    THEN incFs = DeliveredIncFs /\ fs = fs0
    ELSE fs = DeliveredFs /\ incFs = incFs0

\* C26: a DeliveryBackup repeated for the same temp artifact and OFS on a storage that is
\* healthy by then returns no error and leaves the files and symlinks of a single
\* successful delivery, whether the earlier call succeeded or failed partway.
C26_RedeliverySucceeds ==
    (redelivery /\ dpc = "done" /\ ~DstAndLinks.err) => (dret = "nil" /\ Delivered)

\* C27: in a descending rotation, also in one whose scan could not read a symlink, every
\* deletion candidate has a link record and the reconciliation loop never acts on a missing
\* record.
C27_CandidatesHaveRecords ==
    (bakType # IncFiles /\ rotateEnabled /\ rpc # "idle") =>
        /\ \A c \in filesToDelete : filesMap[c].present
        /\ rpc # "panic"

\* createTmpBackup has returned for target t
TmpBackupReturned(t) ==
    \/ stage[t] \in {"start_failed", "dump_failed", "tar_failed"}
    \/ stage[t] = "packed" /\ ~(jcur = t /\ jpc = "packed")

\* C28: once createTmpBackup has returned for a target, with or without an error, the
\* intermediate dump directory of that target no longer exists.
C28_DumpDirRemoved ==
    \A t \in Targets : TmpBackupReturned(t) => t \notin dumpDir

====
